---- MODULE Spec2Model ----
(***************************************************************************)
(* fireCNC firmware: the connectivity fallback ladder (networking.cpp),    *)
(* the limit-status channel between servo_task and led_task                *)
(* (servo_tasks.cpp, led_tasks.cpp) and the SD log (sd_tasks.cpp).         *)
(***************************************************************************)
EXTENDS Integers, Sequences, FiniteSets, TLC

VARIABLES
    \* ---- networking.cpp ----
    last_connection_is_ethernet,  \* networking.cpp:23
    ethernet_connected,           \* networking.cpp:24
    wifi_connected,               \* networking.cpp:25
    net_pc,                       \* position of networking_task in its loop
    ethStarted,                   \* ETH.begin has been called (start_ethernet)
    ethLink,                      \* the cable link, as last reported by ETH_EVENT
    wifiCfg,                      \* "none" | "dhcp" | "static": last WiFi.config/begin
    attempts,                     \* history: transports started in the current cycle
    inCycle,                      \* history: the current loop iteration is a reconnection cycle
    cycleLast,                    \* history: last_connection_is_ethernet when the cycle began
    cycleConnected,               \* history: some connected flag was set during the cycle
    linkDown,                     \* history: a link-down left no transport connected
    ntp_pc,                       \* the event task is in on_got_ip, at update_ntp
    gotIp,                        \* history: what the last run of on_got_ip did
    \* ---- servo_tasks.cpp, led_tasks.cpp ----
    ledCommandQueue,              \* led_tasks.cpp:35, the messages in the queue
    queueCreated,                 \* ledCommandQueue holds a handle (xQueueCreate has run)
    last_status,                  \* servo_task: last_status_y, _yy, _x
    status_read,                  \* servo_task: the read behind status_y, _yy, _x
    servo_pc,                     \* position of servo_task: <<phase, axis>>
    servo_position,               \* led_tasks.cpp:38-40
    last_move_time,               \* led_tasks.cpp:41-43
    now,                          \* xTaskGetTickCount()
    led_pc,                       \* position of led_task
    min_limit,                    \* led_tasks.cpp:68-73
    max_limit,
    sent,                         \* history: per axis, the messages enqueued
    recvd,                        \* history: per axis, the messages led_task received
    prevSample,                   \* history: per axis, limit bits of the last successful read
    lastPoll,                     \* history: what the latest poll of servo_task did
    pushCount,                    \* history: calls of xQueueSend so far
    moveCount,                    \* history: position changes so far
    framePending,                 \* history: events of the frame's start still queued
    leds,                         \* ledsY, ledsYY, ledsX: per axis, the colour of each cell
    leds_backup,                  \* led_tasks.cpp:58-60
    last_pos,                     \* led_tasks.cpp:63-65
    flash_state,                  \* flash_red_limits: static bool flash_state
    framePrevPos,                 \* history: last_pos when the frame began
    frameIdle,                    \* history: per axis, the frame found the axis idle
    \* ---- sd_tasks.cpp ----
    sdMutex,                      \* sd_tasks.cpp:427, 0 is NULL, else a mutex object
    mutexHolder,                  \* per mutex object: the task that took it, or "none"
    nextMutex,                    \* the object the next xSemaphoreCreateMutex returns
    log_pc,                       \* per task: its position in log_to_sd
    logCalls,                     \* history: per task, the calls of log_to_sd that returned
    logFile,                      \* the lines of /system.log
    trapsSent,                    \* history: snmp_trap_send("SD Card Write Failed") calls
    logBufferHandle,              \* sd_tasks.cpp:424, the entries in the ring buffer
    logged,                       \* history: the entries of the calls that returned, in order
    mon_pc,                       \* position of sd_monitor_task
    monChecks,                    \* history: monitor checks begun so far
    fmt_pc,                       \* position of the task that runs format_sd_card
    \* ---- setup(), loop(), the task watchdog ----
    boot_pc,                      \* position of setup() and loop()
    reset_reason,                 \* esp_reset_reason()
    tasksCreated,                 \* the tasks xTaskCreate has made in this boot
    wdtSubscribed,                \* the tasks esp_task_wdt_add has subscribed
    wdtHasReset,                  \* subscribed tasks that have reset since the timer was fed
    wdtElapsed,                   \* ticks since the watchdog timer was fed; -1 before init
    workerAge,                    \* history: per worker, ticks since its last loop cycle
    loopAge,                      \* history: ticks since loop() last ran
    bootFailed,                   \* history: SD or config failed in this boot
    alarmRan,                     \* history: trigger_sd_error_visual ran in this boot
    delayDone,                    \* history: the five-minute delay has run in this boot
    boots,                        \* history: restarts so far
    lastReset,                    \* history: what caused the last restart
    missedAtReset,                \* history: workers past their deadline at the last watchdog reset
    \* ---- one call of the cell index computation ----
    cellCall,                     \* led_tasks.cpp:228-232: the arguments and the led_pos computed
    stripCall,                    \* one frame's calls on a strip: arguments, cells accessed
    knightCall,                   \* knight_rider_effect: static head, forward; the calls
    \* ---- the whole system ----
    panicked                      \* a FreeRTOS assertion failed: the firmware aborted

netVars == <<last_connection_is_ethernet, ethernet_connected, wifi_connected,
             net_pc, ethStarted, ethLink, wifiCfg, attempts, inCycle,
             cycleLast, cycleConnected, linkDown, ntp_pc, gotIp>>

servoVars == <<last_status, status_read, servo_pc, servo_position, last_move_time,
               prevSample, lastPoll, pushCount, moveCount>>

stripVars == <<leds, leds_backup, last_pos, flash_state, framePrevPos, frameIdle>>

ledVars == <<led_pc, min_limit, max_limit, recvd, framePending, stripVars>>

queueVars == <<ledCommandQueue, queueCreated, sent>>

chanVars == <<servoVars, ledVars, queueVars, now>>

logVars == <<sdMutex, mutexHolder, nextMutex, log_pc, logCalls, logFile, trapsSent>>

ringVars == <<logBufferHandle, logged>>

monVars == <<mon_pc, monChecks, fmt_pc>>

supVars == <<boot_pc, reset_reason, tasksCreated, wdtSubscribed, wdtHasReset, wdtElapsed,
             workerAge, loopAge, bootFailed, alarmRan, delayDone, boots, lastReset,
             missedAtReset>>

calcVars == <<cellCall, stripCall, knightCall>>

restVars == <<ringVars, monVars, calcVars, supVars>>

vars == <<netVars, chanVars, logVars, panicked, restVars>>

(***************************************************************************)
(* ConnectivityManager: networking.cpp                                     *)
(***************************************************************************)

\* Transports of the ladder: Ethernet, Wi-Fi with DHCP, Wi-Fi with the static IP.
Ethernet == "E"
WifiDhcp == "W"
WifiStatic == "S"

\* No got-IP event has been handled.
NoGotIp == [event |-> "none", alerts |-> 0, syncs |-> 0, retries |-> 0, synced |-> FALSE]

InitNet ==
    /\ last_connection_is_ethernet = TRUE
    /\ ethernet_connected = FALSE
    /\ wifi_connected = FALSE
    /\ net_pc = "check"
    /\ ethStarted = FALSE
    /\ ethLink = FALSE
    /\ wifiCfg = "none"
    /\ attempts = <<>>
    /\ inCycle = FALSE
    /\ cycleLast = TRUE
    /\ cycleConnected = FALSE
    /\ linkDown = "none"
    /\ ntp_pc = "idle"
    /\ gotIp = NoGotIp

\* start_ethernet(): SPI.begin, ETH.begin.
start_ethernet ==
    /\ ethStarted' = TRUE
    /\ attempts' = Append(attempts, Ethernet)
    /\ UNCHANGED wifiCfg

\* start_wifi(use_static_ip): WiFi.config (static or cleared), WiFi.begin.
start_wifi(use_static_ip) ==
    /\ wifiCfg' = IF use_static_ip THEN "static" ELSE "dhcp"
    /\ attempts' = Append(attempts, IF use_static_ip THEN WifiStatic ELSE WifiDhcp)
    /\ UNCHANGED ethStarted

\* A mutant of FirstTransport: the remembered transport is ignored.
FirstTransport_AlwaysEthernet(last) == Ethernet

\* Line 132: the transport tried first is the one that last succeeded.
FirstTransport(last) == IF last THEN Ethernet ELSE WifiDhcp

\* A mutant of StartTransport: Ethernet is started whatever the transport.
StartTransport_EthernetOnly(t) == start_ethernet

StartTransport(t) == IF t = Ethernet THEN start_ethernet ELSE start_wifi(FALSE)

\* The flag that the check after an attempt reads (lines 135 and 143).
ConnectedFlag(t) == IF t = Ethernet THEN ethernet_connected ELSE wifi_connected

\* Line 128: the loop's check; a reconnection cycle begins when neither flag is set.
NetLoopCheckStep ==
    /\ net_pc = "check"
    /\ IF ~ethernet_connected /\ ~wifi_connected
       THEN /\ net_pc' = "first"
            /\ inCycle' = TRUE
            /\ attempts' = <<>>
            /\ cycleLast' = last_connection_is_ethernet
            /\ cycleConnected' = FALSE
            /\ linkDown' = IF linkDown = "down" THEN "cycle" ELSE linkDown
       ELSE /\ net_pc' = "cooldown"
            /\ inCycle' = FALSE
            /\ UNCHANGED <<attempts, cycleLast, cycleConnected, linkDown>>
    /\ UNCHANGED <<ntp_pc, gotIp, last_connection_is_ethernet, ethernet_connected, wifi_connected,
                   ethStarted, ethLink, wifiCfg, chanVars, panicked, restVars>>

NetLoopCheck == NetLoopCheckStep /\ UNCHANGED logVars

\* Lines 132-134 / 140-142: start the transport that last succeeded, then wait.
NetTryFirst ==
    /\ net_pc = "first"
    /\ StartTransport(FirstTransport(last_connection_is_ethernet))
    /\ net_pc' = IF FirstTransport(last_connection_is_ethernet) = Ethernet
                 THEN "waitE1" ELSE "waitW1"
    /\ linkDown' = IF linkDown = "cycle" THEN "tried" ELSE linkDown
    /\ UNCHANGED <<ntp_pc, gotIp, last_connection_is_ethernet, ethernet_connected, wifi_connected,
                   ethLink, inCycle, cycleLast, cycleConnected, chanVars, logVars, panicked, restVars>>

\* Lines 135 / 143: after the wait, has the transport just tried connected?
NetAfterFirstStep ==
    /\ net_pc \in {"waitE1", "waitW1"}
    /\ LET t == IF net_pc = "waitE1" THEN Ethernet ELSE WifiDhcp
       IN  net_pc' = IF ~ConnectedFlag(t)
                     THEN (IF t = Ethernet THEN "secondW" ELSE "secondE")
                     ELSE "check3"
    /\ UNCHANGED <<ntp_pc, gotIp, linkDown, last_connection_is_ethernet, ethernet_connected, wifi_connected,
                   ethStarted, ethLink, wifiCfg, attempts, inCycle, cycleLast,
                   cycleConnected, chanVars, panicked, restVars>>

NetAfterFirst == NetAfterFirstStep /\ UNCHANGED logVars

\* Lines 136-138 / 144-146: start the other dynamic transport, then wait.
NetTrySecond ==
    /\ net_pc \in {"secondW", "secondE"}
    /\ StartTransport(IF net_pc = "secondW" THEN WifiDhcp ELSE Ethernet)
    /\ net_pc' = "wait2"
    /\ UNCHANGED <<ntp_pc, gotIp, linkDown, last_connection_is_ethernet, ethernet_connected, wifi_connected,
                   ethLink, inCycle, cycleLast, cycleConnected, chanVars, logVars, panicked, restVars>>

\* The second wait ends (lines 138 / 146).
NetAfterSecond ==
    /\ net_pc = "wait2"
    /\ net_pc' = "check3"
    /\ UNCHANGED <<ntp_pc, gotIp, linkDown, last_connection_is_ethernet, ethernet_connected, wifi_connected,
                   ethStarted, ethLink, wifiCfg, attempts, inCycle, cycleLast,
                   cycleConnected, chanVars, logVars, panicked, restVars>>

\* Line 151: fall back to the static IP when neither flag is set.
NetCheckStaticStep ==
    /\ net_pc = "check3"
    /\ net_pc' = IF ~ethernet_connected /\ ~wifi_connected THEN "static" ELSE "cooldown"
    /\ UNCHANGED <<ntp_pc, gotIp, linkDown, last_connection_is_ethernet, ethernet_connected, wifi_connected,
                   ethStarted, ethLink, wifiCfg, attempts, inCycle, cycleLast,
                   cycleConnected, chanVars, panicked, restVars>>

NetCheckStatic == NetCheckStaticStep /\ UNCHANGED logVars

\* Lines 152-154: start_wifi(true), then wait.
NetTryStatic ==
    /\ net_pc = "static"
    /\ start_wifi(TRUE)
    /\ net_pc' = "wait3"
    /\ UNCHANGED <<ntp_pc, gotIp, linkDown, last_connection_is_ethernet, ethernet_connected, wifi_connected,
                   ethLink, inCycle, cycleLast, cycleConnected, chanVars, logVars, panicked, restVars>>

\* The wait after the static attempt ends (line 154).
NetAfterStatic ==
    /\ net_pc = "wait3"
    /\ net_pc' = "cooldown"
    /\ UNCHANGED <<ntp_pc, gotIp, linkDown, last_connection_is_ethernet, ethernet_connected, wifi_connected,
                   ethStarted, ethLink, wifiCfg, attempts, inCycle, cycleLast,
                   cycleConnected, chanVars, logVars, panicked, restVars>>

\* Line 158: the delay before the next check.
NetCooldown ==
    /\ net_pc = "cooldown"
    /\ net_pc' = "check"
    /\ inCycle' = FALSE
    /\ linkDown' = IF linkDown = "tried" THEN "none" ELSE linkDown
    /\ UNCHANGED <<ntp_pc, gotIp, last_connection_is_ethernet, ethernet_connected, wifi_connected,
                   ethStarted, ethLink, wifiCfg, attempts, cycleLast,
                   cycleConnected, chanVars, logVars, panicked, restVars>>

networking_task ==
    \/ NetLoopCheck
    \/ NetTryFirst
    \/ NetAfterFirst
    \/ NetTrySecond
    \/ NetAfterSecond
    \/ NetCheckStatic
    \/ NetTryStatic
    \/ NetAfterStatic
    \/ NetCooldown

\* eth_event_handler, ETHERNET_EVENT_CONNECTED: the link came up.
EthEventConnected ==
    /\ ntp_pc = "idle"
    /\ ethStarted /\ ~ethLink
    /\ ethLink' = TRUE
    /\ ethernet_connected' = TRUE
    /\ cycleConnected' = TRUE
    /\ linkDown' = IF linkDown = "down" THEN "none" ELSE linkDown
    /\ UNCHANGED <<ntp_pc, gotIp, last_connection_is_ethernet, wifi_connected, net_pc, ethStarted,
                   wifiCfg, attempts, inCycle, cycleLast, chanVars, logVars, panicked, restVars>>

\* eth_event_handler, ETHERNET_EVENT_DISCONNECTED: the link went down.
EthEventDisconnected ==
    /\ ntp_pc = "idle"
    /\ ethStarted /\ ethLink
    /\ ethLink' = FALSE
    /\ ethernet_connected' = FALSE
    /\ linkDown' = IF ethernet_connected /\ ~wifi_connected THEN "down" ELSE linkDown
    /\ UNCHANGED <<ntp_pc, gotIp, last_connection_is_ethernet, wifi_connected, net_pc, ethStarted,
                   wifiCfg, attempts, inCycle, cycleLast, cycleConnected, chanVars, logVars, panicked, restVars>>

\* wifi_event_handler, WIFI_EVENT_STA_DISCONNECTED.
WifiEventDisconnected ==
    /\ ntp_pc = "idle"
    /\ wifiCfg # "none"
    /\ wifi_connected
    /\ wifi_connected' = FALSE
    /\ linkDown' = IF ~ethernet_connected THEN "down" ELSE linkDown
    /\ UNCHANGED <<ntp_pc, gotIp, last_connection_is_ethernet, ethernet_connected, net_pc, ethStarted,
                   ethLink, wifiCfg, attempts, inCycle, cycleLast, cycleConnected,
                   chanVars, logVars, panicked, restVars>>

\* Polls of the sync status after which it has left pending, as far as the
\* model follows them.
MaxSyncWait == 12

\* update_ntp, line 102: retry_count < 10.
NTP_MAX_RETRIES == 10

\* A mutant of NtpRetries: the loop goes on for as long as the status is pending.
RECURSIVE NtpRetries_Unbounded(_, _)
NtpRetries_Unbounded(retry_count, leaves) ==
    IF retry_count < leaves
    THEN NtpRetries_Unbounded(retry_count + 1, leaves)
    ELSE retry_count

\* update_ntp, lines 101-105: the retry loop; the status is pending at the
\* reads before read number leaves. The value is retry_count after the loop.
RECURSIVE NtpRetries(_, _)
NtpRetries(retry_count, leaves) ==
    IF retry_count < leaves /\ retry_count < NTP_MAX_RETRIES
    THEN NtpRetries(retry_count + 1, leaves)
    ELSE retry_count

\* update_ntp, lines 93-118: the loop, then the status read again;
\* completes tells whether the status that follows pending is completed.
update_ntp(leaves, completes) ==
    LET retry_count == NtpRetries(0, leaves)
    IN  [retries |-> retry_count, synced |-> retry_count >= leaves /\ completes]

\* A mutant of GotIpAlerts: the trap is sent for Wi-Fi only.
GotIpAlerts_WifiOnly(event) == IF event = "sta" THEN 1 ELSE 0

\* on_got_ip, line 217: snmp_trap_send("Network Connected"), once, whatever
\* the event.
GotIpAlerts(event) == 1

\* on_got_ip, line 218: update_ntp(), in the event task; it logs and returns.
OnGotIpSync(leaves, completes) ==
    /\ ntp_pc = "sync"
    /\ LET r == update_ntp(leaves, completes)
       IN  gotIp' = [gotIp EXCEPT !.syncs = @ + 1, !.retries = r.retries,
                                  !.synced = r.synced]
    /\ ntp_pc' = "idle"
    /\ UNCHANGED <<last_connection_is_ethernet, ethernet_connected, wifi_connected,
                   net_pc, ethStarted, ethLink, wifiCfg, attempts, inCycle, cycleLast,
                   cycleConnected, linkDown, chanVars, logVars, panicked, restVars>>

\* on_got_ip, IP_EVENT_ETH_GOT_IP (lines 202-206).
OnEthGotIp ==
    /\ ntp_pc = "idle"
    /\ ethStarted /\ ethLink
    /\ last_connection_is_ethernet' = TRUE
    /\ ethernet_connected' = TRUE
    /\ cycleConnected' = TRUE
    /\ linkDown' = IF linkDown = "down" THEN "none" ELSE linkDown
    /\ gotIp' = [NoGotIp EXCEPT !.event = "eth", !.alerts = GotIpAlerts("eth")]
    /\ ntp_pc' = "sync"
    /\ UNCHANGED <<wifi_connected, net_pc, ethStarted, ethLink, wifiCfg, attempts,
                   inCycle, cycleLast, chanVars, logVars, panicked, restVars>>

\* on_got_ip, IP_EVENT_STA_GOT_IP (lines 207-215); the address is the static
\* one exactly when the station was configured by start_wifi(true).
OnStaGotIp ==
    /\ ntp_pc = "idle"
    /\ wifiCfg # "none"
    /\ last_connection_is_ethernet' = FALSE
    /\ wifi_connected' = TRUE
    /\ cycleConnected' = TRUE
    /\ linkDown' = IF linkDown = "down" THEN "none" ELSE linkDown
    /\ gotIp' = [NoGotIp EXCEPT !.event = "sta", !.alerts = GotIpAlerts("sta")]
    /\ ntp_pc' = "sync"
    /\ UNCHANGED <<ethernet_connected, net_pc, ethStarted, ethLink, wifiCfg, attempts,
                   inCycle, cycleLast, chanVars, logVars, panicked, restVars>>

\* The handlers run one at a time in the event task; waits are the numbers of
\* reads after which the sync status leaves pending.
NetEvents(waits) ==
    \/ EthEventConnected
    \/ EthEventDisconnected
    \/ WifiEventDisconnected
    \/ OnEthGotIp
    \/ OnStaGotIp
    \/ \E leaves \in waits : \E completes \in BOOLEAN : OnGotIpSync(leaves, completes)


(***************************************************************************)
(* MotorPoller and StatusChannel: servo_tasks.cpp, led_tasks.cpp           *)
(***************************************************************************)

\* Bounds of the exploration.
MaxPush == 3
MaxBurstPush == 12
MaxMoves == 2
MaxTick == 1
MaxStripTick == 2
MaxStripPush == 1
MaxStripMoves == 1

\* strip_id of LimitStatusMessage: 0 for Y, 1 for YY, 2 for X.
Axes == 0..2

\* xQueueCreate(10, sizeof(LimitStatusMessage)).
QUEUE_LENGTH == 10

\* FreeRTOS: wait without a timeout.
portMAX_DELAY == -1

\* What ModbusMaster::readHoldingRegisters hands back: success and the word(s).
ReadFailed == [ok |-> FALSE, value |-> 0]
ReadOk(v) == [ok |-> TRUE, value |-> v]

\* Status words of register 10: bit 0 min limit, bit 1 max limit.
StatusWords == 0..3

\* The reads of a run with failing limit reads: axis Y may read any status
\* word or fail, the min switch of YY toggles, X stays clear, no axis moves.
ChanLimitReads(a) ==
    IF a = 0 THEN {ReadFailed} \cup {ReadOk(w) : w \in StatusWords}
    ELSE IF a = 1 THEN {ReadOk(0), ReadOk(1)}
    ELSE {ReadOk(0)}
ChanPosReads(a) == {ReadOk(0)}

\* The reads of a run with a moving axis: axis Y moves, its min switch toggles
\* and any of its reads may fail.
MoveLimitReads(a) == IF a = 0 THEN {ReadFailed, ReadOk(0), ReadOk(1)} ELSE {ReadOk(0)}
MovePosReads(a) == IF a = 0 THEN {ReadFailed, ReadOk(0), ReadOk(1)} ELSE {ReadOk(0)}

\* The reads of a run that shows on the strips: axis Y moves and its min
\* switch toggles, every read succeeds.
StripLimitReads(a) == IF a = 0 THEN {ReadOk(0), ReadOk(1)} ELSE {ReadOk(0)}
StripPosReads(a) == IF a = 0 THEN {ReadOk(0), ReadOk(1)} ELSE {ReadOk(0)}

\* A rail of one length unit per cell, and the reads of an axis Y that stays
\* at its origin, goes to the middle of the rail or one unit below the origin
\* (the position register is a signed 32-bit value).
MarkerRailLength == 100
MarkerPosReads(a) == IF a = 0 THEN {ReadOk(0), ReadOk(50), ReadOk(-1)} ELSE {ReadOk(0)}

\* The reads of a burst: the min switch of axis Y toggles, nothing else happens.
BurstLimitReads(a) == IF a = 0 THEN {ReadOk(0), ReadOk(1)} ELSE {ReadOk(0)}
BurstPosReads(a) == {ReadOk(0)}

\* read_limit_switches: the word, 0 on failure.
read_limit_switches(r) == IF r.ok THEN r.value ELSE 0

\* read_current_position: the position, 0 on failure.
read_current_position(r) == IF r.ok THEN r.value ELSE 0

\* (bool)(status & 0x01), (bool)(status & 0x02)
MinBit(status) == status % 2 = 1
MaxBit(status) == (status \div 2) % 2 = 1
LimitBits(status) == status % 4

\* LimitStatusMessage msg = {axis, (bool)(status & 0x01), (bool)(status & 0x02)}
LimitStatusMessage(a, status) ==
    [strip_id |-> a, min_limit |-> MinBit(status), max_limit |-> MaxBit(status)]

\* A mutant of ServoSendTicksToWait: the push waits for room.
ServoSendTicksToWait_Forever(a) == portMAX_DELAY

\* The xTicksToWait that servo_task passes to xQueueSend for axis a.
ServoSendTicksToWait(a) == 0

\* xQueueSend returns: at once when there is room or the wait is bounded.
xQueueSendReturns(q, xTicksToWait) ==
    Len(q) < QUEUE_LENGTH \/ xTicksToWait # portMAX_DELAY

\* A mutant of xQueueSend: the message is appended whatever the length.
xQueueSend_Unbounded(q, msg) == Append(q, msg)

\* xQueueSend: the queue afterwards; a full queue rejects the message.
xQueueSend(q, msg) == IF Len(q) < QUEUE_LENGTH THEN Append(q, msg) ELSE q

\* A mutant of xQueueReceive: the newest message is taken first.
xQueueReceive_Newest(q) ==
    [msg |-> q[Len(q)], rest |-> SubSeq(q, 1, Len(q) - 1)]

\* xQueueReceive on a non-empty queue: the oldest message and the rest.
xQueueReceive(q) == [msg |-> Head(q), rest |-> Tail(q)]

NoPoll == [kind |-> "none", axis |-> 0, ok |-> TRUE, pushed |-> FALSE,
           hasPrev |-> FALSE, bitsDiffer |-> FALSE, kept |-> TRUE]

\* config.LEDS_Y_COUNT, LEDS_YY_COUNT, LEDS_X_COUNT: the cells of a strip.
LedCount == 100
Cells == 0..(LedCount - 1)

\* config.RAIL_Y_LENGTH_MM, RAIL_X_LENGTH_MM.
RailLength == 2

\* config.AXIS_POSITION_DISPLAY_LEDS: marker cells on either side of the centre.
AXIS_POSITION_DISPLAY_LEDS == 2

\* config.IDLE_DIM_PERCENT, handed to nscale8 as it is.
IDLE_DIM_PERCENT == 50

\* pdMS_TO_TICKS(config.IDLE_TIMEOUT_SECONDS * 1000)
IdleTimeoutTicks == 1

\* Cells that flash_red_limits paints red at either end.
LimitCells == 20

\* CRGB colours, 0xRRGGBB.
RGB(r, g, b) == (r * 256 + g) * 256 + b
Black == RGB(0, 0, 0)
White == RGB(255, 255, 255)
Orange == RGB(255, 165, 0)
Red == RGB(255, 0, 0)
Green == RGB(0, 128, 0)
Blue == RGB(0, 0, 255)

\* fill_solid over a whole strip.
Solid(colour) == [i \in Cells |-> colour]

\* CRGB::nscale8: every channel scaled by (1 + scale) / 256.
scale8(i, scale) == (i * (1 + scale)) \div 256
nscale8(colour, scale) ==
    RGB(scale8(colour \div 65536, scale),
        scale8((colour \div 256) % 256, scale),
        scale8(colour % 256, scale))

\* flash_red_limits with flash_state already updated: the whole strip
\* orange, the first and last 20 cells red while their limit is active and
\* the flash is on.
flash_red_limits(num_leds, minLimit, maxLimit, flash) ==
    [i \in Cells |->
        IF \/ (minLimit /\ flash /\ i < LimitCells)
           \/ (maxLimit /\ flash /\ i >= num_leds - LimitCells)
        THEN Red ELSE Orange]

Max2(a, b) == IF a > b THEN a ELSE b
Min2(a, b) == IF a < b THEN a ELSE b

\* The cells from index - around to index + around that are on the strip.
MarkerRange(index, num_leds, around) ==
    Max2(0, index - around)..Min2(num_leds - 1, index + around)

\* a / b of C++, b positive: the quotient is truncated towards zero.
TruncDiv(a, b) == IF a >= 0 \/ a % b = 0 THEN a \div b ELSE (a \div b) + 1

\* int led_pos = (position * num_leds) / rail_length, the product within int.
LedPos(position, num_leds, rail_length) == TruncDiv(position * num_leds, rail_length)

\* The largest and the smallest value of the 32-bit int of the build.
INT32_MAX == 2147483647
INT32_MIN == -INT32_MAX - 1

\* a + b in a 32-bit two's complement register.
WrapAdd32(a, b) ==
    IF a >= 0 /\ b >= 0 /\ a > INT32_MAX - b THEN (a + INT32_MIN) + (b + INT32_MIN)
    ELSE IF a < 0 /\ b < 0 /\ a < INT32_MIN - b THEN (a - INT32_MIN) + (b - INT32_MIN)
    ELSE a + b

\* a * b in a 32-bit two's complement register, b not negative: the low 32
\* bits of the product, which is what the multiply instruction leaves when
\* the signed product overflows.
RECURSIVE WrapMul32(_, _)
WrapMul32(a, b) ==
    IF b = 0 THEN 0
    ELSE LET half == WrapMul32(a, b \div 2)
             twice == WrapAdd32(half, half)
         IN  IF b % 2 = 1 THEN WrapAdd32(twice, a) ELSE twice

\* The product of two ints that are not negative does not fit an int.
MulOverflows32(a, b) == a > 0 /\ b > 0 /\ a > INT32_MAX \div b

\* int led_pos = (position * num_leds) / rail_length with the ints of the
\* build, rail_length positive.
LedPos32(position, num_leds, rail_length) == TruncDiv(WrapMul32(position, num_leds), rail_length)

\* The configured strip lengths, rail lengths and the positions on a rail
\* for which the cell index is computed.
LedCounts == {1, 60, 100, 144, 300}
RailLengths == {1, 2, 1000, 3000, 8000000, INT32_MAX}
RailPositions(rail_length) == {0, 1, rail_length \div 2, rail_length - 1, rail_length} \cap (0..rail_length)

\* The calls of update_position_display_and_preserve with a position on the
\* rail, before led_pos is computed.
CellCalls ==
    UNION {{[num_leds |-> n, rail_length |-> r, position |-> p, done |-> FALSE,
             overflow |-> FALSE, led_pos |-> -1] : p \in RailPositions(r)} :
               n \in LedCounts, r \in RailLengths}

\* The record of a call of the cell index computation that has returned.
NoCellCall == [num_leds |-> LedCount, rail_length |-> RailLength, position |-> 0, done |-> TRUE, overflow |-> FALSE, led_pos |-> 0]

\* The record of a frame on a strip whose calls have returned.
NoStripCall == [num_leds |-> LedCount, rail_length |-> RailLength, position |-> 0, last_pos |-> 0, min_limit |-> FALSE, max_limit |-> FALSE, pc |-> "done", cells |-> {}]

\* The boot animation is not followed: no call of knight_rider_effect to come.
NoKnightCall == [lens |-> <<LedCount, LedCount, LedCount>>, head |-> 0, forward |-> TRUE, strip |-> 1, calls |-> 0, written |-> -1, into |-> 1, on |-> FALSE]

\* No call is looked at.
InitCalc == cellCall = NoCellCall /\ stripCall = NoStripCall /\ knightCall = NoKnightCall

\* update_position_display_and_preserve, lines 229-232: led_pos is computed.
ComputeLedPos ==
    /\ ~cellCall.done
    /\ cellCall.rail_length > 0
    /\ cellCall' = [cellCall EXCEPT
                      !.done = TRUE,
                      !.overflow = MulOverflows32(cellCall.position, cellCall.num_leds),
                      !.led_pos = LedPos32(cellCall.position, cellCall.num_leds,
                                           cellCall.rail_length)]
    /\ UNCHANGED <<stripCall, knightCall, netVars, chanVars, logVars, panicked, ringVars,
                   monVars, supVars>>

\* The cells flash_red_limits writes: fill_solid over num_leds cells from
\* cell 0, over 20 cells from cell 0 when the min limit is active (either
\* flash phase), over 20 cells from cell num_leds - 20 when the max limit is.
FlashRedCells(num_leds, minLimit, maxLimit) ==
    (0..(num_leds - 1))
        \cup (IF minLimit THEN 0..(LimitCells - 1) ELSE {})
        \cup (IF maxLimit THEN (num_leds - LimitCells)..(num_leds - 1) ELSE {})

\* The cells of leds and backup_leds that update_position_display_and_preserve
\* reads or writes: the restore loop, the save loop and the paint loop.
MarkerAccessCells(num_leds, position, rail_length, around, lastPos) ==
    LET led_pos == LedPos32(position, num_leds, rail_length)
    IN  IF rail_length <= 0 \/ led_pos = lastPos THEN {}
        ELSE (IF lastPos # -1 THEN MarkerRange(lastPos, num_leds, around) ELSE {})
                 \cup MarkerRange(led_pos, num_leds, around)

\* Strip lengths from one cell to more than twice the limit range; positions
\* below the origin, on the rail and beyond its end; a marker not yet drawn
\* or drawn at either end of the strip.
StripCallLengths == {1, 5, 19, 20, 21, 40, 100}
StripCallRail == 100
StripCallPositions == {-1000, -1, 0, 50, 100, 101, 5000}
StripCalls ==
    UNION {{[num_leds |-> n, rail_length |-> StripCallRail, position |-> p, last_pos |-> l,
             min_limit |-> mn, max_limit |-> mx, pc |-> "flash", cells |-> {}] :
               p \in StripCallPositions, l \in {-1, 0, n - 1}} :
                 n \in StripCallLengths, mn \in BOOLEAN, mx \in BOOLEAN}

\* led_task, lines 184-186: flash_red_limits on the strip.
CallFlashRedLimits ==
    /\ stripCall.pc = "flash"
    /\ stripCall' = [stripCall EXCEPT
                       !.pc = "marker",
                       !.cells = FlashRedCells(stripCall.num_leds, stripCall.min_limit,
                                               stripCall.max_limit)]
    /\ UNCHANGED <<cellCall, knightCall, netVars, chanVars, logVars, panicked, ringVars,
                   monVars, supVars>>

\* led_task, lines 189-191: update_position_display_and_preserve on the strip.
CallUpdatePositionDisplay ==
    /\ stripCall.pc = "marker"
    /\ stripCall' = [stripCall EXCEPT
                       !.pc = "done",
                       !.cells = @ \cup MarkerAccessCells(stripCall.num_leds,
                                     stripCall.position, stripCall.rail_length,
                                     AXIS_POSITION_DISPLAY_LEDS, stripCall.last_pos)]
    /\ UNCHANGED <<cellCall, knightCall, netVars, chanVars, logVars, panicked, ringVars,
                   monVars, supVars>>

\* Calls of knight_rider_effect that are followed.
MaxKnightCalls == 9

\* The strip lengths config.LEDS_Y_COUNT, LEDS_YY_COUNT, LEDS_X_COUNT of the
\* boot animation.
KnightLengths == {2, 3, 4}
KnightCalls ==
    {[lens |-> <<y, yy, x>>, head |-> 0, forward |-> TRUE, strip |-> 1, calls |-> 0,
      written |-> -1, into |-> 1, on |-> TRUE] :
        y \in KnightLengths, yy \in KnightLengths, x \in KnightLengths}

\* knight_rider_effect: static head and forward after the eye has moved.
KnightMove(head, forward, num_leds) ==
    IF forward
    THEN [head |-> head + 1, forward |-> ~(head + 1 >= num_leds - 1)]
    ELSE [head |-> head - 1, forward |-> head - 1 <= 0]

\* led_task, lines 144-146: knight_rider_effect is called for the strips Y,
\* YY and X in turn; leds[head] is written, then the eye moves.
knight_rider_effect ==
    /\ knightCall.on
    /\ knightCall.calls < MaxKnightCalls
    /\ LET num_leds == knightCall.lens[knightCall.strip]
           moved == KnightMove(knightCall.head, knightCall.forward, num_leds)
       IN  knightCall' = [knightCall EXCEPT
                            !.written = knightCall.head,
                            !.into = knightCall.strip,
                            !.head = moved.head,
                            !.forward = moved.forward,
                            !.strip = IF knightCall.strip = 3 THEN 1 ELSE knightCall.strip + 1,
                            !.calls = @ + 1]
    /\ UNCHANGED <<cellCall, stripCall, netVars, chanVars, logVars, panicked, ringVars,
                   monVars, supVars>>

\* A mutant of update_position_display_and_preserve: every call puts the
\* whole strip back from the backup and paints the marker again.
update_position_display_redraw(strip, backup, n, position, rail, around, lastPos) ==
    LET num_leds == n
        rail_length == rail
        led_pos == LedPos(position, num_leds, rail_length)
        marker == MarkerRange(led_pos, num_leds, around)
    IN  [leds |-> [i \in Cells |-> IF i \in marker THEN Green ELSE backup[i]],
         backup |-> backup,
         last_pos |-> led_pos]

\* update_position_display_and_preserve: the strip, the backup and last_pos
\* afterwards.
update_position_display_and_preserve(strip, backup, n, position, rail, around, lastPos) ==
    LET num_leds == n
        rail_length == rail
        led_pos == LedPos(position, num_leds, rail_length)
        restore == IF lastPos # -1 THEN MarkerRange(lastPos, num_leds, around) ELSE {}
        marker == MarkerRange(led_pos, num_leds, around)
        restored == [i \in Cells |-> IF i \in restore THEN backup[i] ELSE strip[i]]
    IN  IF rail_length <= 0 \/ led_pos = lastPos
        THEN [leds |-> strip, backup |-> backup, last_pos |-> lastPos]
        ELSE [leds |-> [i \in Cells |-> IF i \in marker THEN Green ELSE restored[i]],
              backup |-> [i \in Cells |-> IF i \in marker THEN restored[i] ELSE backup[i]],
              last_pos |-> led_pos]

\* dim_leds_on_idle: the white cells are scaled.
dim_leds_on_idle(strip, idle_percent) ==
    [i \in Cells |-> IF strip[i] = White THEN nscale8(strip[i], idle_percent)
                                       ELSE strip[i]]

\* The strips after the boot animation and the white fill of Y and YY: strip
\* X still shows the last knight_rider_effect frame, its eye at cell head.
BootStrips(head) ==
    [a \in Axes |-> IF a \in {0, 1} THEN Solid(White)
                    ELSE [i \in Cells |-> IF i = head THEN Blue ELSE Black]]

InitStrips ==
    /\ leds = [a \in Axes |-> Solid(Black)]
    /\ leds_backup = [a \in Axes |-> Solid(Black)]
    /\ last_pos = [a \in Axes |-> -1]
    /\ flash_state = FALSE
    /\ framePrevPos = [a \in Axes |-> -1]
    /\ frameIdle = [a \in Axes |-> FALSE]

InitChan ==
    /\ InitStrips
    /\ ledCommandQueue = <<>>
    /\ queueCreated = FALSE
    /\ last_status = [a \in Axes |-> 0]
    /\ status_read = ReadOk(0)
    /\ servo_pc = <<"init", 0>>
    /\ servo_position = [a \in Axes |-> 0]
    /\ last_move_time = [a \in Axes |-> 0]
    /\ now = 0
    /\ led_pc = "create"
    /\ min_limit = [a \in Axes |-> FALSE]
    /\ max_limit = [a \in Axes |-> FALSE]
    /\ sent = [a \in Axes |-> <<>>]
    /\ recvd = [a \in Axes |-> <<>>]
    /\ prevSample = [a \in Axes |-> -1]
    /\ lastPoll = NoPoll
    /\ pushCount = 0
    /\ moveCount = 0
    /\ framePending = 0

\* servo_task, lines 94-108: serial port and Modbus nodes.
ServoInit ==
    /\ ~panicked
    /\ servo_pc = <<"init", 0>>
    /\ servo_pc' = <<"limit", 0>>
    /\ UNCHANGED <<last_status, status_read, servo_position, last_move_time, prevSample,
                   lastPoll, pushCount, moveCount, ledVars, queueVars, now, netVars, logVars, panicked, restVars>>

\* The poll of the limit switches of axis a is over: what it did.
LimitPollDone(a, r, changed) ==
    /\ lastPoll' = [kind |-> "limit", axis |-> a, ok |-> r.ok,
                    pushed |-> changed,
                    hasPrev |-> prevSample[a] # -1,
                    bitsDiffer |-> r.ok /\ LimitBits(r.value) # prevSample[a],
                    kept |-> ~changed]
    /\ prevSample' = IF r.ok THEN [prevSample EXCEPT ![a] = LimitBits(r.value)]
                             ELSE prevSample

NextAfterLimit(a) == IF a < 2 THEN <<"limit", a + 1>> ELSE <<"position", 0>>

\* servo_task, lines 112-113 (120-121, 128-129): read the limit switches of
\* axis a and compare; r is what the Modbus read returns, budget caps the
\* number of pushes of the run.
ServoPollLimit(a, r, budget) ==
    /\ ~panicked
    /\ servo_pc = <<"limit", a>>
    /\ LET status == read_limit_switches(r)
           changed == status # last_status[a]
       IN  /\ changed => pushCount < budget
           /\ status_read' = r
           /\ IF changed
              THEN /\ servo_pc' = <<"send", a>>
                   /\ UNCHANGED <<lastPoll, prevSample>>
              ELSE /\ servo_pc' = NextAfterLimit(a)
                   /\ LimitPollDone(a, r, FALSE)
    /\ UNCHANGED <<last_status, servo_position, last_move_time, pushCount, moveCount,
                   ledVars, queueVars, now, netVars, logVars, panicked, restVars>>

\* servo_task, lines 114-116 (122-124, 130-132): build the message, push it
\* with xQueueSend, remember the status.
ServoSend(a) ==
    /\ ~panicked
    /\ servo_pc = <<"send", a>>
    /\ LET status == read_limit_switches(status_read)
           msg == LimitStatusMessage(a, status)
       IN  /\ queueCreated => xQueueSendReturns(ledCommandQueue, ServoSendTicksToWait(a))
           /\ pushCount' = pushCount + 1
           /\ LimitPollDone(a, status_read, TRUE)
           /\ IF ~queueCreated
              THEN \* xQueueSend on a NULL handle: configASSERT(pxQueue) aborts
                   /\ panicked' = TRUE
                   /\ UNCHANGED <<last_status, servo_pc, queueVars>>
              ELSE /\ ledCommandQueue' = xQueueSend(ledCommandQueue, msg)
                   /\ sent' = IF Len(ledCommandQueue) < QUEUE_LENGTH
                              THEN [sent EXCEPT ![a] = Append(@, msg)] ELSE sent
                   /\ last_status' = [last_status EXCEPT ![a] = status]
                   /\ servo_pc' = NextAfterLimit(a)
                   /\ UNCHANGED <<queueCreated, panicked>>
    /\ UNCHANGED <<status_read, servo_position, last_move_time, moveCount, ledVars, now,
                   netVars, logVars, restVars>>

\* A mutant of check_and_update_position: every poll restarts the idle timer.
check_and_update_position_AlwaysResets(current_position, last_position, move_time, tick) ==
    [position |-> current_position, time |-> tick]

\* check_and_update_position: the stored position and last_move_time afterwards.
check_and_update_position(current_position, last_position, move_time, tick) ==
    IF current_position # last_position
    THEN [position |-> current_position, time |-> tick]
    ELSE [position |-> last_position, time |-> move_time]

\* servo_task, lines 135-145: poll the position of axis a.
ServoPollPosition(a, r, budget) ==
    /\ ~panicked
    /\ servo_pc = <<"position", a>>
    /\ LET current == read_current_position(r)
           upd == check_and_update_position(current, servo_position[a],
                                            last_move_time[a], now)
           changed == current # servo_position[a]
       IN  /\ changed => moveCount < budget
           /\ servo_position' = [servo_position EXCEPT ![a] = upd.position]
           /\ last_move_time' = [last_move_time EXCEPT ![a] = upd.time]
           /\ moveCount' = IF changed THEN moveCount + 1 ELSE moveCount
           /\ lastPoll' = [kind |-> "position", axis |-> a, ok |-> r.ok,
                           pushed |-> FALSE, hasPrev |-> FALSE, bitsDiffer |-> FALSE,
                           kept |-> upd.position = servo_position[a]
                                    /\ upd.time = last_move_time[a]]
    /\ servo_pc' = IF a < 2 THEN <<"position", a + 1>> ELSE <<"sleep", 0>>
    /\ UNCHANGED <<last_status, status_read, prevSample, pushCount, ledVars, queueVars,
                   now, netVars, logVars, panicked, restVars>>

\* servo_task, line 147: vTaskDelay, then the next poll cycle.
ServoSleep ==
    /\ ~panicked
    /\ servo_pc = <<"sleep", 0>>
    /\ servo_pc' = <<"limit", 0>>
    /\ UNCHANGED <<last_status, status_read, servo_position, last_move_time, prevSample,
                   lastPoll, pushCount, moveCount, ledVars, queueVars, now, netVars, logVars, panicked, restVars>>

\* The tick count advances, up to limit.
TickTo(limit) ==
    /\ ~panicked
    /\ now < limit
    /\ now' = now + 1
    /\ UNCHANGED <<servoVars, ledVars, queueVars, netVars, logVars, panicked, restVars>>

Tick == TickTo(MaxTick)

\* led_task, lines 137-138: the semaphore and the queue are created.
LedCreate ==
    /\ ~panicked
    /\ led_pc = "create"
    /\ queueCreated' = TRUE
    /\ ledCommandQueue' = <<>>
    /\ led_pc' = "boot"
    /\ UNCHANGED <<min_limit, max_limit, recvd, framePending, stripVars, sent, servoVars, now,
                   netVars, logVars, panicked, restVars>>

\* led_task, lines 141-160: the boot animation, the white fill, the backups.
LedBoot(head) ==
    /\ ~panicked
    /\ led_pc = "boot"
    /\ led_pc' = "receive"
    /\ leds' = BootStrips(head)
    /\ leds_backup' = BootStrips(head)
    /\ UNCHANGED <<min_limit, max_limit, recvd, framePending, last_pos, flash_state,
                   framePrevPos, frameIdle, queueVars, servoVars, now, netVars, logVars,
                   panicked, restVars>>

\* led_task, lines 165-181: a frame begins; at most one message is received.
LedReceive ==
    /\ ~panicked
    /\ led_pc = "receive"
    /\ IF ledCommandQueue # <<>>
       THEN LET got == xQueueReceive(ledCommandQueue)
            IN  /\ ledCommandQueue' = got.rest
                /\ min_limit' = [min_limit EXCEPT ![got.msg.strip_id] = got.msg.min_limit]
                /\ max_limit' = [max_limit EXCEPT ![got.msg.strip_id] = got.msg.max_limit]
                /\ recvd' = [recvd EXCEPT ![got.msg.strip_id] = Append(@, got.msg)]
                /\ framePending' = Len(ledCommandQueue) - 1
       ELSE /\ framePending' = 0
            /\ UNCHANGED <<ledCommandQueue, min_limit, max_limit, recvd>>
    /\ led_pc' = "render"
    /\ UNCHANGED <<queueCreated, sent, stripVars, servoVars, now, netVars, logVars, panicked,
                   restVars>>

\* led_task, lines 183-213: limit visuals, position markers, dimming, show.
\* toggle: 500 ms have passed since flash_red_limits last flipped flash_state.
\* rail: the configured rail length.
LedRenderOn(toggle, rail) ==
    /\ ~panicked
    /\ led_pc = "render"
    /\ led_pc' = "delay"
    /\ LET flash == IF toggle THEN ~flash_state ELSE flash_state
           base == [a \in Axes |->
                      flash_red_limits(LedCount, min_limit[a], max_limit[a], flash)]
           upd == [a \in Axes |->
                      update_position_display_and_preserve(
                          base[a], leds_backup[a], LedCount, servo_position[a],
                          rail, AXIS_POSITION_DISPLAY_LEDS, last_pos[a])]
           idle == [a \in Axes |-> now - last_move_time[a] > IdleTimeoutTicks]
       IN  /\ flash_state' = flash
           /\ leds' = [a \in Axes |->
                          IF idle[a] THEN dim_leds_on_idle(upd[a].leds, IDLE_DIM_PERCENT)
                                     ELSE upd[a].leds]
           /\ leds_backup' = [a \in Axes |-> upd[a].backup]
           /\ last_pos' = [a \in Axes |-> upd[a].last_pos]
           /\ framePrevPos' = last_pos
           /\ frameIdle' = idle
    /\ UNCHANGED <<min_limit, max_limit, recvd, framePending, queueVars, servoVars, now,
                   netVars, logVars, panicked, restVars>>

\* A frame with the rail length of the runs on the strips.
LedRender(toggle) == LedRenderOn(toggle, RailLength)

\* A mutant of LedDelay: led_task restarts the idle timers after a frame.
LedDelay_RestartsIdleTimers ==
    /\ ~panicked
    /\ led_pc = "delay"
    /\ led_pc' = "receive"
    /\ last_move_time' = [a \in Axes |-> now]
    /\ UNCHANGED <<min_limit, max_limit, recvd, framePending, stripVars, queueVars,
                   last_status, status_read, servo_pc, servo_position, prevSample,
                   lastPoll, pushCount, moveCount, now,
                   netVars, logVars, panicked, restVars>>

\* led_task, line 214: vTaskDelay, then the next frame.
LedDelay ==
    /\ ~panicked
    /\ led_pc = "delay"
    /\ led_pc' = "receive"
    /\ UNCHANGED <<min_limit, max_limit, recvd, framePending, stripVars, queueVars, servoVars, now,
                   netVars, logVars, panicked, restVars>>

\* Where the eye of the boot animation stops on strip X.
KnightRiderHead == 0

\* led_task while the 500 ms flash period does not run out.
led_task ==
    \/ LedCreate
    \/ LedBoot(KnightRiderHead)
    \/ LedReceive
    \/ LedRender(FALSE)
    \/ LedDelay

\* led_task with the flash period running out in any frame.
led_task_flash ==
    \/ LedCreate
    \/ LedBoot(KnightRiderHead)
    \/ LedReceive
    \/ \E toggle \in BOOLEAN : LedRender(toggle)
    \/ LedDelay

\* servo_task with the reads of a run with failing reads.
servo_task ==
    \/ ServoInit
    \/ \E a \in Axes : \E r \in ChanLimitReads(a) : ServoPollLimit(a, r, MaxPush)
    \/ \E a \in Axes : ServoSend(a)
    \/ \E a \in Axes : \E r \in ChanPosReads(a) : ServoPollPosition(a, r, MaxMoves)
    \/ ServoSleep

\* servo_task with the reads of a run with a moving axis.
servo_task_move ==
    \/ ServoInit
    \/ \E a \in Axes : \E r \in MoveLimitReads(a) : ServoPollLimit(a, r, MaxPush)
    \/ \E a \in Axes : ServoSend(a)
    \/ \E a \in Axes : \E r \in MovePosReads(a) : ServoPollPosition(a, r, MaxMoves)
    \/ ServoSleep

\* servo_task with the reads of a run that shows on the strips.
servo_task_strip ==
    \/ ServoInit
    \/ \E a \in Axes : \E r \in StripLimitReads(a) : ServoPollLimit(a, r, MaxStripPush)
    \/ \E a \in Axes : ServoSend(a)
    \/ \E a \in Axes : \E r \in StripPosReads(a) : ServoPollPosition(a, r, MaxStripMoves)
    \/ ServoSleep

\* servo_task with the reads of an axis Y that leaves its origin in either
\* direction.
servo_task_marker ==
    \/ ServoInit
    \/ \E a \in Axes : \E r \in StripLimitReads(a) : ServoPollLimit(a, r, MaxStripPush)
    \/ \E a \in Axes : ServoSend(a)
    \/ \E a \in Axes : \E r \in MarkerPosReads(a) : ServoPollPosition(a, r, MaxStripMoves)
    \/ ServoSleep

\* led_task with a rail as long as the strip has cells.
led_task_marker ==
    \/ LedCreate
    \/ LedBoot(KnightRiderHead)
    \/ LedReceive
    \/ \E toggle \in BOOLEAN : LedRenderOn(toggle, MarkerRailLength)
    \/ LedDelay

\* servo_task with the reads of a burst.
servo_task_burst ==
    \/ ServoInit
    \/ \E a \in Axes : \E r \in BurstLimitReads(a) : ServoPollLimit(a, r, MaxBurstPush)
    \/ \E a \in Axes : ServoSend(a)
    \/ \E a \in Axes : \E r \in BurstPosReads(a) : ServoPollPosition(a, r, MaxMoves)
    \/ ServoSleep

(***************************************************************************)
(* SharedLog: sd_tasks.cpp                                                 *)
(***************************************************************************)

\* Calls of log_to_sd that each task makes.
MaxLogCalls == 2

\* Tasks that call log_to_sd once setup() has created them: networking_task
\* (init_network_stack) and led_task (boot animation).
LogTasks == {"networking_task", "led_task"}

\* Tasks that call log_to_sd at fixed places of their code: sd_monitor_task,
\* and the task that runs format_sd_card.
MonitorTask == "sd_monitor_task"
FormatTask == "webserver_task"
AllLogTasks == LogTasks \cup {MonitorTask, FormatTask}

\* Mutex objects that can come to exist: one made by setup(), one per task.
MutexIds == 1..(Cardinality(AllLogTasks) + 1)

\* setup() calls log_to_sd before it creates the tasks only when the reset
\* reason is not ESP_RST_SW, ESP_RST_WDT or ESP_RST_DEEPSLEEP
\* (snmp_tasks.cpp:434-438): the tasks start with sdMutex created or NULL.
InitLog(created) ==
    /\ sdMutex \in created
    /\ nextMutex = sdMutex + 1
    /\ mutexHolder = [m \in MutexIds |-> "none"]
    /\ log_pc = [t \in AllLogTasks |-> "idle"]
    /\ logCalls = [t \in AllLogTasks |-> 0]
    /\ logFile = <<>>
    /\ trapsSent = 0

\* The ring buffer of recent log entries: declared, never created.
InitRing ==
    /\ logBufferHandle = <<>>
    /\ logged = <<>>

\* Task t is between xSemaphoreTake and xSemaphoreGive of log_to_sd.
InLogSection(t) == log_pc[t] \in {"open", "write", "give", "trapped"}

\* Task t calls log_to_sd.
LogCall(t) ==
    /\ ~panicked
    /\ log_pc[t] = "idle"
    /\ logCalls[t] < MaxLogCalls
    /\ log_pc' = [log_pc EXCEPT ![t] = "test"]
    /\ UNCHANGED <<sdMutex, mutexHolder, nextMutex, logCalls, logFile, trapsSent,
                   netVars, chanVars, panicked, restVars>>

\* log_to_sd, line 464: if (sdMutex == NULL).
LogTestMutex(t) ==
    /\ ~panicked
    /\ log_pc[t] = "test"
    /\ log_pc' = [log_pc EXCEPT ![t] = IF sdMutex = 0 THEN "create" ELSE "take"]
    /\ UNCHANGED <<sdMutex, mutexHolder, nextMutex, logCalls, logFile, trapsSent,
                   netVars, chanVars, panicked, restVars>>

\* log_to_sd, line 465: sdMutex = xSemaphoreCreateMutex().
LogCreateMutex(t) ==
    /\ ~panicked
    /\ log_pc[t] = "create"
    /\ sdMutex' = nextMutex
    /\ nextMutex' = nextMutex + 1
    /\ log_pc' = [log_pc EXCEPT ![t] = "take"]
    /\ UNCHANGED <<mutexHolder, logCalls, logFile, trapsSent, netVars, chanVars,
                   panicked, restVars>>

\* The xTicksToWait of every xSemaphoreTake(sdMutex, ...): log_to_sd (line
\* 468), sd_monitor_task (505), format_sd_card (445) and the SNMP callbacks
\* (snmp_tasks.cpp 92, 107, 122).
SdMutexTicksToWait == portMAX_DELAY

\* xSemaphoreTake returns: when the mutex is free, or when the wait is bounded.
xSemaphoreTakeReturns(holder, xTicksToWait) ==
    holder = "none" \/ xTicksToWait # portMAX_DELAY

\* log_to_sd, line 468: xSemaphoreTake(sdMutex, portMAX_DELAY) waits until
\* the mutex that sdMutex names is free.
LogTake(t) ==
    /\ ~panicked
    /\ log_pc[t] = "take"
    /\ xSemaphoreTakeReturns(mutexHolder[sdMutex], SdMutexTicksToWait)
    /\ mutexHolder[sdMutex] = "none"
    /\ mutexHolder' = [mutexHolder EXCEPT ![sdMutex] = t]
    /\ log_pc' = [log_pc EXCEPT ![t] = "open"]
    /\ UNCHANGED <<sdMutex, nextMutex, logCalls, logFile, trapsSent, netVars, chanVars,
                   panicked, restVars>>

\* log_to_sd, lines 470-485: timestamp, SD.open(LOG_FILE_PATH, FILE_APPEND);
\* when the file does not open the trap "SD Card Write Failed" is sent.
LogOpen(t, opened) ==
    /\ ~panicked
    /\ log_pc[t] = "open"
    /\ log_pc' = [log_pc EXCEPT ![t] = IF opened THEN "write" ELSE "trapped"]
    /\ trapsSent' = IF opened THEN trapsSent ELSE trapsSent + 1
    /\ UNCHANGED <<sdMutex, mutexHolder, nextMutex, logCalls, logFile, netVars,
                   chanVars, panicked, restVars>>

\* What a write to the file can leave behind: the whole line; when another
\* task has the file open at the same time (unsynchronised access to the SD
\* library), also a torn line or nothing.
WriteOutcomes(t) ==
    IF \E u \in AllLogTasks \ {t} : log_pc[u] = "write"
    THEN {"whole", "torn", "lost"}
    ELSE {"whole"}

\* log_to_sd, lines 480-481: logFile.printf, logFile.close.
LogWrite(t, outcome) ==
    /\ ~panicked
    /\ log_pc[t] = "write"
    /\ outcome \in WriteOutcomes(t)
    /\ logFile' = IF outcome = "lost" THEN logFile
                  ELSE Append(logFile, [by |-> t, whole |-> outcome = "whole"])
    /\ log_pc' = [log_pc EXCEPT ![t] = "give"]
    /\ UNCHANGED <<sdMutex, mutexHolder, nextMutex, logCalls, trapsSent, netVars,
                   chanVars, panicked, restVars>>

\* log_to_sd, line 486: xSemaphoreGive(sdMutex), and the return.  Giving a
\* mutex that another task holds trips configASSERT in
\* xTaskPriorityDisinherit, or releases it when assertions are compiled out.
LogGive(t, asserts) ==
    /\ ~panicked
    /\ log_pc[t] \in {"give", "trapped"}
    /\ IF mutexHolder[sdMutex] \notin {t, "none"} /\ asserts
       THEN /\ panicked' = TRUE
            /\ UNCHANGED <<mutexHolder, log_pc, logCalls, logged>>
       ELSE /\ mutexHolder' = [mutexHolder EXCEPT ![sdMutex] = "none"]
            /\ log_pc' = [log_pc EXCEPT ![t] = "idle"]
            /\ logCalls' = [logCalls EXCEPT ![t] = @ + 1]
            /\ logged' = Append(logged, [by |-> t, call |-> logCalls[t] + 1])
            /\ UNCHANGED panicked
    /\ UNCHANGED <<sdMutex, nextMutex, logFile, trapsSent, logBufferHandle, netVars,
                   chanVars, monVars, calcVars, supVars>>

log_to_sd(t) ==
    \/ LogCall(t)
    \/ LogTestMutex(t)
    \/ LogCreateMutex(t)
    \/ LogTake(t)
    \/ \E opened \in BOOLEAN : LogOpen(t, opened)
    \/ \E outcome \in {"whole", "torn", "lost"} : LogWrite(t, outcome)
    \/ \E asserts \in BOOLEAN : LogGive(t, asserts)

\* Checks that sd_monitor_task begins, calls of format_sd_card.
MaxMonChecks == 2

InitMon ==
    /\ mon_pc = "start"
    /\ monChecks = 0
    /\ fmt_pc = "idle"

\* xSemaphoreGive(sdMutex) by task t outside log_to_sd: the mutex that
\* sdMutex names now is released; when another task holds it configASSERT
\* aborts, or the mutex is released when assertions are compiled out.
GiveSdMutex(t, asserts) ==
    IF mutexHolder[sdMutex] \notin {t, "none"} /\ asserts
    THEN /\ panicked' = TRUE
         /\ UNCHANGED mutexHolder
    ELSE /\ mutexHolder' = [mutexHolder EXCEPT ![sdMutex] = "none"]
         /\ UNCHANGED panicked

\* sd_monitor_task, lines 495-500: the check at startup; the card's size is
\* logged when there is a card.
MonStart(cardPresent) ==
    /\ ~panicked
    /\ mon_pc = "start"
    /\ IF cardPresent
       THEN /\ mon_pc' = "startlog"
            /\ log_pc' = [log_pc EXCEPT ![MonitorTask] = "test"]
       ELSE /\ mon_pc' = "delay"
            /\ UNCHANGED log_pc
    /\ UNCHANGED <<sdMutex, mutexHolder, nextMutex, logCalls, logFile, trapsSent,
                   monChecks, fmt_pc, ringVars, supVars, calcVars, netVars, chanVars, panicked>>

\* sd_monitor_task: a call of log_to_sd has returned.
MonAfterLog ==
    /\ ~panicked
    /\ mon_pc \in {"startlog", "checklog"}
    /\ log_pc[MonitorTask] = "idle"
    /\ mon_pc' = IF mon_pc = "startlog" THEN "delay" ELSE "give"
    /\ UNCHANGED <<logVars, monChecks, fmt_pc, ringVars, supVars, calcVars, netVars, chanVars, panicked>>

\* sd_monitor_task, line 503: vTaskDelay(SD_MONITOR_INTERVAL).
MonDelay ==
    /\ ~panicked
    /\ mon_pc = "delay"
    /\ monChecks < MaxMonChecks
    /\ mon_pc' = "take"
    /\ monChecks' = monChecks + 1
    /\ UNCHANGED <<logVars, fmt_pc, ringVars, supVars, calcVars, netVars, chanVars, panicked>>

\* sd_monitor_task, line 505: xSemaphoreTake(sdMutex, portMAX_DELAY); on a
\* NULL handle configASSERT(pxQueue) aborts.
MonTake ==
    /\ ~panicked
    /\ mon_pc = "take"
    /\ IF sdMutex = 0
       THEN /\ panicked' = TRUE
            /\ UNCHANGED <<mutexHolder, mon_pc>>
       ELSE /\ xSemaphoreTakeReturns(mutexHolder[sdMutex], SdMutexTicksToWait)
            /\ mutexHolder[sdMutex] = "none"
            /\ mutexHolder' = [mutexHolder EXCEPT ![sdMutex] = MonitorTask]
            /\ mon_pc' = "check"
            /\ UNCHANGED panicked
    /\ UNCHANGED <<sdMutex, nextMutex, log_pc, logCalls, logFile, trapsSent,
                   monChecks, fmt_pc, ringVars, supVars, calcVars, netVars, chanVars>>

\* sd_monitor_task, lines 506-519, with the mutex held: log_to_sd is called
\* when the usage is over the threshold and when there is no card.
MonCheck(cardPresent, overThreshold) ==
    /\ ~panicked
    /\ mon_pc = "check"
    /\ IF ~cardPresent \/ overThreshold
       THEN /\ mon_pc' = "checklog"
            /\ log_pc' = [log_pc EXCEPT ![MonitorTask] = "test"]
       ELSE /\ mon_pc' = "give"
            /\ UNCHANGED log_pc
    /\ UNCHANGED <<sdMutex, mutexHolder, nextMutex, logCalls, logFile, trapsSent,
                   monChecks, fmt_pc, ringVars, supVars, calcVars, netVars, chanVars, panicked>>

\* sd_monitor_task, line 520: xSemaphoreGive(sdMutex).
MonGive(asserts) ==
    /\ ~panicked
    /\ mon_pc = "give"
    /\ GiveSdMutex(MonitorTask, asserts)
    /\ mon_pc' = IF panicked' THEN mon_pc ELSE "delay"
    /\ UNCHANGED <<sdMutex, nextMutex, log_pc, logCalls, logFile, trapsSent,
                   monChecks, fmt_pc, ringVars, supVars, calcVars, netVars, chanVars>>

\* The calls of log_to_sd that task t makes from its own code.
log_to_sd_called(t) ==
    \/ LogTestMutex(t)
    \/ LogCreateMutex(t)
    \/ LogTake(t)
    \/ \E opened \in BOOLEAN : LogOpen(t, opened)
    \/ \E outcome \in {"whole", "torn", "lost"} : LogWrite(t, outcome)
    \/ \E asserts \in BOOLEAN : LogGive(t, asserts)

sd_monitor_task ==
    \/ \E cardPresent \in BOOLEAN : MonStart(cardPresent)
    \/ MonAfterLog
    \/ MonDelay
    \/ MonTake
    \/ \E cardPresent, overThreshold \in BOOLEAN : MonCheck(cardPresent, overThreshold)
    \/ \E asserts \in BOOLEAN : MonGive(asserts)
    \/ log_to_sd_called(MonitorTask)

\* Calls of log_to_sd that networking_task makes in a run.
MaxNetLogCalls == 3

NetTask == "networking_task"

\* networking_task calls log_to_sd (lines 129, 136, 144, 152) when logs holds.
NetLogCall(logs) ==
    IF logs
    THEN /\ logCalls[NetTask] < MaxNetLogCalls
         /\ log_pc' = [log_pc EXCEPT ![NetTask] = "test"]
         /\ UNCHANGED <<sdMutex, mutexHolder, nextMutex, logCalls, logFile, trapsSent>>
    ELSE UNCHANGED logVars

\* Lines 128-129: the check, and the log entry that opens a cycle.
NetLoopCheckLogged == NetLoopCheckStep /\ NetLogCall(net_pc' = "first")

\* Lines 135-136 / 143-144: the check after the first wait, and the log entry
\* of the failed attempt.
NetAfterFirstLogged == NetAfterFirstStep /\ NetLogCall(net_pc' \in {"secondW", "secondE"})

\* Lines 151-152: the check before the fallback, and its log entry.
NetCheckStaticLogged == NetCheckStaticStep /\ NetLogCall(net_pc' = "static")

\* networking_task with its calls of log_to_sd: a call has returned before the
\* task goes on.
networking_task_logging ==
    \/ /\ ~panicked
       /\ log_pc[NetTask] = "idle"
       /\ \/ NetLoopCheckLogged
          \/ NetTryFirst
          \/ NetAfterFirstLogged
          \/ NetTrySecond
          \/ NetAfterSecond
          \/ NetCheckStaticLogged
          \/ NetTryStatic
          \/ NetAfterStatic
          \/ NetCooldown
    \/ log_to_sd_called(NetTask)

\* format_sd_card, lines 439-443: the trap, the first log entry, the tone.
FmtCall ==
    /\ ~panicked
    /\ fmt_pc = "idle"
    /\ fmt_pc' = "log1"
    /\ log_pc' = [log_pc EXCEPT ![FormatTask] = "test"]
    /\ UNCHANGED <<sdMutex, mutexHolder, nextMutex, logCalls, logFile, trapsSent,
                   mon_pc, monChecks, ringVars, supVars, calcVars, netVars, chanVars, panicked>>

\* format_sd_card: a call of log_to_sd has returned.
FmtAfterLog ==
    /\ ~panicked
    /\ fmt_pc \in {"log1", "log2"}
    /\ log_pc[FormatTask] = "idle"
    /\ fmt_pc' = IF fmt_pc = "log1" THEN "take" ELSE "give"
    /\ UNCHANGED <<logVars, mon_pc, monChecks, ringVars, supVars, calcVars, netVars, chanVars, panicked>>

\* format_sd_card, line 445: xSemaphoreTake(sdMutex, portMAX_DELAY).
FmtTake ==
    /\ ~panicked
    /\ fmt_pc = "take"
    /\ xSemaphoreTakeReturns(mutexHolder[sdMutex], SdMutexTicksToWait)
    /\ mutexHolder[sdMutex] = "none"
    /\ mutexHolder' = [mutexHolder EXCEPT ![sdMutex] = FormatTask]
    /\ fmt_pc' = "format"
    /\ UNCHANGED <<sdMutex, nextMutex, log_pc, logCalls, logFile, trapsSent,
                   mon_pc, monChecks, ringVars, supVars, calcVars, netVars, chanVars, panicked>>

\* format_sd_card, lines 446-452, with the mutex held: SD.format(), then
\* log_to_sd of the result, whichever it is.
FmtFormat(formatted) ==
    /\ ~panicked
    /\ fmt_pc = "format"
    /\ fmt_pc' = "log2"
    /\ log_pc' = [log_pc EXCEPT ![FormatTask] = "test"]
    /\ logFile' = IF formatted THEN <<>> ELSE logFile
    /\ UNCHANGED <<sdMutex, mutexHolder, nextMutex, logCalls, trapsSent,
                   mon_pc, monChecks, ringVars, supVars, calcVars, netVars, chanVars, panicked>>

\* format_sd_card, lines 453-457: xSemaphoreGive(sdMutex), noTone.
FmtGive(asserts) ==
    /\ ~panicked
    /\ fmt_pc = "give"
    /\ GiveSdMutex(FormatTask, asserts)
    /\ fmt_pc' = IF panicked' THEN fmt_pc ELSE "done"
    /\ UNCHANGED <<sdMutex, nextMutex, log_pc, logCalls, logFile, trapsSent,
                   mon_pc, monChecks, ringVars, supVars, calcVars, netVars, chanVars>>

format_sd_card ==
    \/ FmtCall
    \/ FmtAfterLog
    \/ FmtTake
    \/ \E formatted \in BOOLEAN : FmtFormat(formatted)
    \/ \E asserts \in BOOLEAN : FmtGive(asserts)
    \/ log_to_sd_called(FormatTask)

(***************************************************************************)
(* Supervisor: setup(), loop() and the task watchdog                       *)
(***************************************************************************)

\* Restarts of a run.
MaxBoots == 1

\* config.WATCHDOG_TIMEOUT, in ticks of this model.
WATCHDOG_TIMEOUT == 2

\* The tasks that setup() creates: lines 479-484, ssh_init at line 586.
Workers == {"networking_task", "led_task", "servo_task", "webserver_task",
            "sd_monitor_task", "ssh_server_task"}

\* The idle tasks of the two cores: they reset the watchdog from their hook.
IdleTasks == {"IDLE0", "IDLE1"}

\* The handles that setup() passes to esp_task_wdt_add, lines 487-492.
WdtAdded == {"led_task", "servo_task", "webserver_task", "sd_monitor_task"} \cup IdleTasks

\* The workers that call esp_task_wdt_reset in their loop: none does.
WorkersThatReset == {}

ZeroAges == [t \in Workers |-> 0]

\* The state in which setup() begins after a reset for the given reason.
Booted(reason) ==
    /\ boot_pc = "begin"
    /\ reset_reason = reason
    /\ tasksCreated = {}
    /\ wdtSubscribed = {}
    /\ wdtHasReset = {}
    /\ wdtElapsed = -1
    /\ workerAge = ZeroAges
    /\ loopAge = 0
    /\ bootFailed = FALSE
    /\ alarmRan = FALSE
    /\ delayDone = FALSE

InitSup ==
    /\ Booted("POWERON")
    /\ boots = 0
    /\ lastReset = "none"
    /\ missedAtReset = {}

\* The globals of networking.cpp after a reset (lines 23-25), as in InitNet.
ResetNet ==
    /\ last_connection_is_ethernet' = TRUE
    /\ ethernet_connected' = FALSE
    /\ wifi_connected' = FALSE
    /\ net_pc' = "check"
    /\ ethStarted' = FALSE
    /\ ethLink' = FALSE
    /\ wifiCfg' = "none"
    /\ attempts' = <<>>
    /\ inCycle' = FALSE
    /\ cycleLast' = TRUE
    /\ cycleConnected' = FALSE
    /\ linkDown' = "none"
    /\ ntp_pc' = "idle"
    /\ gotIp' = NoGotIp

\* The chip resets: every global has its initial value again and setup() runs.
\* The poller, the strips and the log are not run together with the
\* supervisor and are at their initial values already.
Reboot(reason, cause, missed) ==
    /\ boots < MaxBoots
    /\ ResetNet
    /\ UNCHANGED <<chanVars, logVars, ringVars, monVars, calcVars, panicked>>
    /\ boot_pc' = "begin"
    /\ reset_reason' = reason
    /\ tasksCreated' = {}
    /\ wdtSubscribed' = {}
    /\ wdtHasReset' = {}
    /\ wdtElapsed' = -1
    /\ workerAge' = ZeroAges
    /\ loopAge' = 0
    /\ bootFailed' = FALSE
    /\ alarmRan' = FALSE
    /\ delayDone' = FALSE
    /\ boots' = boots + 1
    /\ lastReset' = cause
    /\ missedAtReset' = missed

\* A mutant of SetupNext: a failed step is not acted upon.
SetupNext_Continue(next, ok) == next

\* Where setup() goes after a step: on, or to the alarm (lines 442-460).
SetupNext(next, ok) == IF ok THEN next ELSE "alarm"

\* setup(), lines 431-438: the beeps, the trap and the log entry of a reset
\* that was not asked for.
SetupBegin ==
    /\ boot_pc = "begin"
    /\ boot_pc' = "tca"
    /\ UNCHANGED <<reset_reason, tasksCreated, wdtSubscribed, wdtHasReset, wdtElapsed,
                   workerAge, loopAge, bootFailed, alarmRan, delayDone, boots,
                   lastReset, missedAtReset, netVars, chanVars, logVars, ringVars,
                   monVars, calcVars, panicked>>

\* setup(), lines 440-460: a step that must succeed; step is "tca" (the I/O
\* expander), "sd" (SD.begin) or "config" (load_config_from_sd).
SetupStep(step, ok) ==
    /\ boot_pc = step
    /\ step \in {"tca", "sd", "config"}
    /\ boot_pc' = SetupNext(CASE step = "tca" -> "sd"
                               [] step = "sd" -> "config"
                               [] step = "config" -> "tasks", ok)
    /\ bootFailed' = (bootFailed \/ (~ok /\ step \in {"sd", "config"}))
    /\ UNCHANGED <<reset_reason, tasksCreated, wdtSubscribed, wdtHasReset, wdtElapsed,
                   workerAge, loopAge, alarmRan, delayDone, boots, lastReset,
                   missedAtReset, netVars, chanVars, logVars, ringVars, monVars, calcVars,
                   panicked>>

\* trigger_sd_error_visual(): the log entry, three beeps, ten seconds of red
\* flashes, then solid red.
SetupAlarm ==
    /\ boot_pc = "alarm"
    /\ boot_pc' = "delay"
    /\ alarmRan' = TRUE
    /\ UNCHANGED <<reset_reason, tasksCreated, wdtSubscribed, wdtHasReset, wdtElapsed,
                   workerAge, loopAge, bootFailed, delayDone, boots, lastReset,
                   missedAtReset, netVars, chanVars, logVars, ringVars, monVars, calcVars,
                   panicked>>

\* delay(5 * 60 * 1000) after the alarm.
SetupAlarmDelay ==
    /\ boot_pc = "delay"
    /\ boot_pc' = "restart"
    /\ delayDone' = TRUE
    /\ UNCHANGED <<reset_reason, tasksCreated, wdtSubscribed, wdtHasReset, wdtElapsed,
                   workerAge, loopAge, bootFailed, alarmRan, boots, lastReset,
                   missedAtReset, netVars, chanVars, logVars, ringVars, monVars, calcVars,
                   panicked>>

\* ESP.restart() after the delay.
SetupRestart ==
    /\ boot_pc = "restart"
    /\ Reboot("SW", "alarm", {})

\* setup(), lines 479-484: the five xTaskCreate calls and ssh_init().
SetupCreateTasks ==
    /\ boot_pc = "tasks"
    /\ boot_pc' = "wdt"
    /\ tasksCreated' = Workers
    /\ UNCHANGED <<reset_reason, wdtSubscribed, wdtHasReset, wdtElapsed, workerAge,
                   loopAge, bootFailed, alarmRan, delayDone, boots, lastReset,
                   missedAtReset, netVars, chanVars, logVars, ringVars, monVars, calcVars,
                   panicked>>

\* setup(), lines 486-492: esp_task_wdt_init(WATCHDOG_TIMEOUT, true) and the
\* esp_task_wdt_add calls.
SetupWdt ==
    /\ boot_pc = "wdt"
    /\ boot_pc' = "loop"
    /\ wdtSubscribed' = WdtAdded
    /\ wdtHasReset' = {}
    /\ wdtElapsed' = 0
    /\ workerAge' = ZeroAges
    /\ loopAge' = 0
    /\ UNCHANGED <<reset_reason, tasksCreated, bootFailed, alarmRan, delayDone, boots,
                   lastReset, missedAtReset, netVars, chanVars, logVars, ringVars,
                   monVars, calcVars, panicked>>

\* esp_task_wdt_reset() called by task t: nothing for a task that is not
\* subscribed (ESP_ERR_NOT_FOUND); once every subscribed task has reset, the
\* timer is fed.
esp_task_wdt_reset(t) ==
    IF t \notin wdtSubscribed
    THEN UNCHANGED <<wdtHasReset, wdtElapsed>>
    ELSE IF wdtHasReset \cup {t} = wdtSubscribed
         THEN wdtHasReset' = {} /\ wdtElapsed' = 0
         ELSE wdtHasReset' = wdtHasReset \cup {t} /\ UNCHANGED wdtElapsed

\* loop(), lines 495-498: esp_task_wdt_reset() by the loop task, then
\* vTaskDelay(100 ms).
Loop ==
    /\ boot_pc = "loop"
    /\ loopAge > 0
    /\ esp_task_wdt_reset("loopTask")
    /\ loopAge' = 0
    /\ UNCHANGED <<boot_pc, reset_reason, tasksCreated, wdtSubscribed, workerAge,
                   bootFailed, alarmRan, delayDone, boots, lastReset, missedAtReset,
                   netVars, chanVars, logVars, ringVars, monVars, calcVars, panicked>>

\* Worker t completes a cycle of its loop (servo_task lines 110-148, led_task
\* 163-215, ...); it resets the watchdog if its code does.
WorkerCycle(t) ==
    /\ t \in tasksCreated
    /\ workerAge[t] > 0
    /\ workerAge' = [workerAge EXCEPT ![t] = 0]
    /\ IF t \in WorkersThatReset
       THEN esp_task_wdt_reset(t)
       ELSE UNCHANGED <<wdtHasReset, wdtElapsed>>
    /\ UNCHANGED <<boot_pc, reset_reason, tasksCreated, wdtSubscribed, loopAge,
                   bootFailed, alarmRan, delayDone, boots, lastReset, missedAtReset,
                   netVars, chanVars, logVars, ringVars, monVars, calcVars, panicked>>

\* The idle hook of a core resets the watchdog for its idle task.
IdleHook(t) ==
    /\ t \in IdleTasks
    /\ t \in wdtSubscribed
    /\ t \notin wdtHasReset
    /\ esp_task_wdt_reset(t)
    /\ UNCHANGED <<boot_pc, reset_reason, tasksCreated, wdtSubscribed, workerAge, loopAge,
                   bootFailed, alarmRan, delayDone, boots, lastReset, missedAtReset,
                   netVars, chanVars, logVars, ringVars, monVars, calcVars, panicked>>

\* A tick passes while the tasks run; the watchdog timer has not run out.
SupTick ==
    /\ boot_pc = "loop"
    /\ wdtElapsed < WATCHDOG_TIMEOUT
    /\ wdtElapsed' = wdtElapsed + 1
    /\ workerAge' = [t \in Workers |-> IF workerAge[t] < WATCHDOG_TIMEOUT
                                        THEN workerAge[t] + 1 ELSE workerAge[t]]
    /\ loopAge' = IF loopAge < WATCHDOG_TIMEOUT THEN loopAge + 1 ELSE loopAge
    /\ UNCHANGED <<boot_pc, reset_reason, tasksCreated, wdtSubscribed, wdtHasReset,
                   bootFailed, alarmRan, delayDone, boots, lastReset, missedAtReset,
                   netVars, chanVars, logVars, ringVars, monVars, calcVars, panicked>>

\* The watchdog timer runs out before every subscribed task has reset: with
\* panic set the chip resets.
WdtExpire ==
    /\ wdtElapsed = WATCHDOG_TIMEOUT
    /\ Reboot("WDT", "wdt",
              {t \in wdtSubscribed \cap Workers : workerAge[t] >= WATCHDOG_TIMEOUT})

setup ==
    \/ SetupBegin
    \/ \E step \in {"tca", "sd", "config"} : \E ok \in BOOLEAN : SetupStep(step, ok)
    \/ SetupAlarm
    \/ SetupAlarmDelay
    \/ SetupRestart
    \/ SetupCreateTasks
    \/ SetupWdt

\* The tasks have been created; sdMutex is still NULL.
Init ==
    /\ InitNet
    /\ InitChan
    /\ InitLog({0})
    /\ InitRing
    /\ InitMon
    /\ InitSup
    /\ InitCalc
    /\ panicked = FALSE

\* The tasks have been created, after any reset reason.
InitAnyReset ==
    /\ InitNet
    /\ InitChan
    /\ InitLog({0, 1})
    /\ InitRing
    /\ InitMon
    /\ InitSup
    /\ InitCalc
    /\ panicked = FALSE

NextNet ==
    \/ networking_task
    \/ NetEvents(0..MaxSyncWait)

\* networking_task and the event handlers, any interleaving.
SpecNet == Init /\ [][NextNet]_vars

NextChan ==
    \/ servo_task
    \/ led_task

\* servo_task and led_task, any interleaving, limit reads that may fail.
SpecChan == Init /\ [][NextChan]_vars

NextMove ==
    \/ servo_task_move
    \/ led_task
    \/ Tick

\* servo_task and led_task, any interleaving, a moving axis, time passing.
SpecMove == Init /\ [][NextMove]_vars

NextStrip ==
    \/ servo_task_strip
    \/ led_task_flash
    \/ TickTo(MaxStripTick)

\* servo_task and led_task, any interleaving, a moving axis, time passing,
\* the limit cells flashing.
SpecStrip == Init /\ [][NextStrip]_vars

NextMarker ==
    \/ servo_task_marker
    \/ led_task_marker
    \/ TickTo(MaxStripTick)

\* servo_task and led_task, any interleaving, an axis that moves up or below
\* its origin.
SpecMarker == Init /\ [][NextMarker]_vars

NextBurst ==
    \/ servo_task_burst
    \/ led_task

\* servo_task and led_task, any interleaving, a toggling limit switch.
SpecBurst == Init /\ [][NextBurst]_vars

\* servo_task is always ready and is scheduled again and again; nothing is
\* assumed about how often led_task runs.
SpecBurstFair == SpecBurst /\ WF_vars(servo_task_burst)

NextLog == \E t \in LogTasks : log_to_sd(t)

\* The tasks call log_to_sd concurrently, any interleaving.
SpecLog == InitAnyReset /\ [][NextLog]_vars

\* Every worker completes a cycle of its loop; none resets the watchdog.
WorkersCycle ==
    /\ tasksCreated = Workers
    /\ workerAge # ZeroAges
    /\ workerAge' = ZeroAges
    /\ UNCHANGED <<boot_pc, reset_reason, tasksCreated, wdtSubscribed, wdtHasReset,
                   wdtElapsed, loopAge, bootFailed, alarmRan, delayDone, boots,
                   lastReset, missedAtReset, netVars, chanVars, logVars, ringVars,
                   monVars, calcVars, panicked>>

\* networking_task and the event handlers it registers run once setup() has
\* created the task.
NetRunning ==
    /\ "networking_task" \in tasksCreated
    /\ networking_task \/ NetEvents({0})

NextNetLog ==
    \/ networking_task_logging
    \/ sd_monitor_task

\* networking_task with no transport ever connecting, its log entries, and
\* sd_monitor_task on the same mutex.
SpecNetLog == InitAnyReset /\ [][NextNetLog]_vars

NextNetSup ==
    \/ setup
    \/ NetRunning
    \/ Loop
    \/ WorkersCycle
    \/ SupTick
    \/ WdtExpire

\* The connectivity manager under the supervisor and the task watchdog; the
\* idle hooks, which cannot feed the timer alone, are left to SpecSup.
SpecNetSup == Init /\ [][NextNetSup]_vars

NextSup ==
    \/ setup
    \/ Loop
    \/ \E t \in Workers : WorkerCycle(t)
    \/ \E t \in IdleTasks : IdleHook(t)
    \/ SupTick
    \/ WdtExpire

\* setup(), loop(), the workers and the task watchdog.
SpecSup == Init /\ [][NextSup]_vars

\* Everything as after construction, and one call of the cell index
\* computation with any of the configurations and positions.
InitCellCall ==
    /\ InitNet
    /\ InitChan
    /\ InitLog({0})
    /\ InitRing
    /\ InitMon
    /\ InitSup
    /\ cellCall \in CellCalls
    /\ stripCall = NoStripCall
    /\ knightCall = NoKnightCall
    /\ panicked = FALSE

NextCell == ComputeLedPos

\* Everything as after construction, and one frame on a strip of any of the
\* lengths, with any of the positions and limit flags.
InitStripCall ==
    /\ InitNet
    /\ InitChan
    /\ InitLog({0})
    /\ InitRing
    /\ InitMon
    /\ InitSup
    /\ cellCall = NoCellCall
    /\ stripCall \in StripCalls
    /\ knightCall = NoKnightCall
    /\ panicked = FALSE

\* Everything as after construction, and the boot animation with any of the
\* strip lengths.
InitKnight ==
    /\ InitNet
    /\ InitChan
    /\ InitLog({0})
    /\ InitRing
    /\ InitMon
    /\ InitSup
    /\ cellCall = NoCellCall
    /\ stripCall = NoStripCall
    /\ knightCall \in KnightCalls
    /\ panicked = FALSE

NextKnight == knight_rider_effect

\* The calls of knight_rider_effect of the boot animation.
SpecKnight == InitKnight /\ [][NextKnight]_vars

NextStripCall ==
    \/ CallFlashRedLimits
    \/ CallUpdatePositionDisplay

\* The limit step and the marker step of a frame, applied to every call of
\* StripCalls.
SpecStripCall == InitStripCall /\ [][NextStripCall]_vars

\* The cell index computation applied to every call of CellCalls.
SpecCell == InitCellCall /\ [][NextCell]_vars

NextMon ==
    \/ sd_monitor_task
    \/ format_sd_card

\* sd_monitor_task and a task that formats the card, any interleaving.
SpecMon == InitAnyReset /\ [][NextMon]_vars

\* Both tasks are scheduled again and again while they can run.
SpecMonFair == SpecMon /\ WF_vars(sd_monitor_task) /\ WF_vars(format_sd_card)

(***************************************************************************)
(* Properties of the ConnectivityManager                                   *)
(***************************************************************************)

\* The cycle has made all the attempts it is going to make.
CycleOver == net_pc = "cooldown" /\ inCycle

\* C1: a reconnection cycle in which no connected flag was ever set starts
\* exactly [last successful, other dynamic, static fallback]: [W, E, S] when
\* the cycle began with last_connection_is_ethernet = FALSE, [E, W, S] when TRUE.
C1_FallbackOrder ==
    (CycleOver /\ ~cycleConnected) =>
        attempts = IF cycleLast THEN <<Ethernet, WifiDhcp, WifiStatic>>
                                ELSE <<WifiDhcp, Ethernet, WifiStatic>>

C1_Witness ==
    /\ CycleOver /\ ~cycleConnected /\ ~cycleLast
    /\ attempts = <<WifiDhcp, Ethernet, WifiStatic>>

\* C2: in every cycle the static fallback is started only after Ethernet and
\* Wi-Fi DHCP have both been started in that cycle.
C2_StaticAfterBothDynamic ==
    \A i \in 1..Len(attempts) :
        attempts[i] = WifiStatic =>
            {attempts[j] : j \in 1..(i - 1)} = {Ethernet, WifiDhcp}

\* C3: a got-IP event of the static fallback leaves
\* last_connection_is_ethernet unchanged.
C3_StaticKeepsLast ==
    [][(OnStaGotIp /\ wifiCfg = "static") =>
          last_connection_is_ethernet' = last_connection_is_ethernet]_vars

\* C4: while ethernet_connected or wifi_connected is set, networking_task
\* starts no transport.
C4_NoAttemptWhileConnected ==
    [][(ethernet_connected \/ wifi_connected) =>
          ~(NetTryFirst \/ NetTrySecond \/ NetTryStatic)]_vars

(***************************************************************************)
(* Properties of the MotorPoller and the StatusChannel                     *)
(***************************************************************************)

\* C5: a poll of the limit switches of an axis pushes a StatusEvent onto the
\* channel if and only if it took a sample whose limit bits (min, max) differ
\* from those of the preceding sample of the axis.
C5_EdgeTriggered ==
    (lastPoll.kind = "limit" /\ lastPoll.hasPrev /\ ~panicked) =>
        (lastPoll.pushed <=> lastPoll.bitsDiffer)

\* C6: a poll whose register read failed keeps the stored values of the axis
\* (limit status, position, last_move_time) and pushes no StatusEvent.
C6_FailedReadNoChange ==
    (lastPoll.kind # "none" /\ ~lastPoll.ok) =>
        (lastPoll.kept /\ ~lastPoll.pushed)

\* C7: once the queue exists, every poll cycle of servo_task reaches its
\* vTaskDelay, whatever the length of the queue and however rarely led_task
\* runs: a push never waits.
C7_PollerNeverBlocks == queueCreated ~> (servo_pc = <<"sleep", 0>>)

\* servo_task has pushed onto a full queue and has finished that poll cycle.
C7_Witness ==
    /\ Len(ledCommandQueue) = QUEUE_LENGTH
    /\ pushCount > QUEUE_LENGTH
    /\ servo_pc = <<"sleep", 0>>

\* C8: where a frame of led_task computes the limit visuals, no event that
\* was pending when the frame began is still in the queue.
C8_FrameDrains == (led_pc = "render") => (framePending = 0)

IsPrefix(s, t) == Len(s) <= Len(t) /\ s = SubSeq(t, 1, Len(s))

\* C9: for every axis, the messages led_task has received are, in order, the
\* first of the messages servo_task enqueued for that axis.
C9_PerAxisFifo == \A a \in Axes : IsPrefix(recvd[a], sent[a])

\* Two different events of axis Y and one of axis YY have been received.
C9_Witness ==
    /\ Len(recvd[0]) >= 2
    /\ recvd[0][1] # recvd[0][2]
    /\ Len(recvd[1]) >= 1

(***************************************************************************)
(* Properties of the SharedLog                                             *)
(***************************************************************************)

AllLogCallsReturned == \A t \in LogTasks : logCalls[t] = MaxLogCalls

\* C10: at most one task at a time is between taking and giving the log
\* mutex, and when all N calls of log_to_sd have returned (none of them
\* having failed to open the file) the log holds exactly N whole lines.
C10_ConcurrentAppends ==
    /\ Cardinality({t \in AllLogTasks : InLogSection(t)}) <= 1
    /\ (AllLogCallsReturned /\ trapsSent = 0) =>
           /\ Len(logFile) = MaxLogCalls * Cardinality(LogTasks)
           /\ \A i \in 1..Len(logFile) : logFile[i].whole

\* Entries the ring buffer can hold.
RingCapacity == 2

Min(a, b) == IF a < b THEN a ELSE b

\* The last n elements of the sequence s.
LastN(s, n) == SubSeq(s, Len(s) - n + 1, Len(s))

\* C11: whenever no call of log_to_sd is in progress, the ring buffer holds
\* the most recent min(count, RingCapacity) entries of the calls that have
\* returned, in the order they were logged.
C11_RingHoldsRecent ==
    (\A t \in AllLogTasks : log_pc[t] = "idle") =>
        logBufferHandle = LastN(logged, Min(Len(logged), RingCapacity))

\* C12: no task is in log_to_sd, about to wait for sdMutex, while it holds
\* a storage mutex itself: a call made so can never take the mutex and return.
C12_NoLogWhileHolding ==
    \A t \in AllLogTasks :
        log_pc[t] \in {"test", "create", "take"} =>
            \A m \in MutexIds : mutexHolder[m] # t

(***************************************************************************)
(* Properties of the IndicatorRenderer                                     *)
(***************************************************************************)

\* The cell index that the position of axis a maps to.
CellOf(a) == LedPos(servo_position[a], LedCount, RailLength)

\* The marker cells around cell index c.
MarkerCells(c) == MarkerRange(c, LedCount, AXIS_POSITION_DISPLAY_LEDS)

\* What flash_red_limits paints on the strip of axis a with the flash at f.
BaseOf(a, f) == flash_red_limits(LedCount, min_limit[a], max_limit[a], f)

\* C13: update_position_display_and_preserve, called on a freshly painted
\* strip with a position that maps to the cell index in last_pos, changes no
\* cell outside the marker range saved around last_pos and leaves the backup
\* buffer and last_pos as they were.
C13_MarkerRedrawIdempotent ==
    \A a \in Axes : \A f \in BOOLEAN :
        LET base == BaseOf(a, f)
            r == update_position_display_and_preserve(
                     base, leds_backup[a], LedCount, servo_position[a],
                     RailLength, AXIS_POSITION_DISPLAY_LEDS, last_pos[a])
        IN  CellOf(a) = last_pos[a] =>
                /\ r.backup = leds_backup[a]
                /\ r.last_pos = last_pos[a]
                /\ \A i \in Cells \ MarkerCells(last_pos[a]) : r.leds[i] = base[i]

\* A frame has been rendered with the marker of axis Y staying at cell 50.
C13_Witness ==
    /\ led_pc = "delay"
    /\ framePrevPos[0] = 50
    /\ last_pos[0] = 50
    /\ CellOf(0) = 50

\* C14: in the frame that moves the marker of axis Y from cell 0 to cell 50
\* (position 0 to RailLength / 2, 100 cells), the marker is painted around
\* cell 50 and every cell of the old marker range outside the new one shows
\* the colour that flash_red_limits computed in that frame.
C14_MarkerMove ==
    (led_pc = "delay" /\ framePrevPos[0] = 0 /\ last_pos[0] = 50) =>
        /\ \A i \in MarkerCells(50) : leds[0][i] = Green
        /\ LET base == BaseOf(0, flash_state)
           IN  \A i \in MarkerCells(0) \ MarkerCells(50) : leds[0][i] = base[i]

\* The cells of axis a that show a white scaled once by IDLE_DIM_PERCENT.
DimmedCells(a) == {i \in Cells : leds[a][i] = nscale8(White, IDLE_DIM_PERCENT)}

\* C15: in a rendered frame the track cells of an axis are dimmed exactly
\* when the frame found the axis idle for longer than the timeout, and no cell
\* is scaled a second time.
C15_IdleDimming ==
    led_pc = "delay" =>
        \A a \in Axes :
            /\ DimmedCells(a) # {} => frameIdle[a]
            /\ frameIdle[a] => DimmedCells(a) # {}
            /\ \A i \in Cells :
                   leds[a][i] # nscale8(nscale8(White, IDLE_DIM_PERCENT), IDLE_DIM_PERCENT)

\* C16: once setup() has finished, every worker task it created is subscribed
\* to the task watchdog.
C16_EveryWorkerRegistered == boot_pc = "loop" => tasksCreated \subseteq wdtSubscribed

\* C17: a watchdog reset happens only when a registered worker has stopped
\* completing its loop cycles for the length of the watchdog timeout.
C17_ResetOnlyOnMissedDeadline == lastReset = "wdt" => missedAtReset # {}

\* C18: when SD initialisation or configuration loading has failed, setup() is
\* in the alarm, the delay or the restart, the restart comes after both, and
\* no task has been created and none subscribed to the watchdog.
C18_StorageFailureIsFatal ==
    bootFailed =>
        /\ boot_pc \in {"alarm", "delay", "restart"}
        /\ boot_pc = "delay" => alarmRan
        /\ boot_pc = "restart" => alarmRan /\ delayDone
        /\ tasksCreated = {}
        /\ wdtSubscribed = {}

C18_Witness == bootFailed /\ boot_pc = "restart" /\ alarmRan /\ delayDone

\* The watchdog resets the chip because a registered worker missed its deadline.
FailFastReset == lastReset' = "wdt" /\ boots' = boots + 1 /\ missedAtReset' # {}

\* C19: once a transport is connected the manager stays Connected until a
\* link-down event: a step that leaves no transport connected is a
\* disconnect event of the Ethernet or the Wi-Fi handler (or the reset that
\* follows a worker's missed deadline).
C19_ConnectedUntilLinkDown == [][((ethernet_connected \/ wifi_connected) /\ ~(ethernet_connected' \/ wifi_connected')) => (EthEventDisconnected \/ WifiEventDisconnected \/ FailFastReset)]_vars

\* C20: after a disconnect event has left no transport connected, the next
\* check of networking_task (line 128) that finds no transport connected
\* begins a reconnection cycle, and the first attempt of that cycle is the
\* transport recorded in last_connection_is_ethernet.
C20_LinkDownRestartsLadder ==
    [][/\ (linkDown = "down" /\ net_pc = "check" /\ net_pc' # "check"
          /\ ~ethernet_connected /\ ~wifi_connected)
            => (net_pc' = "first" /\ inCycle' /\ attempts' = <<>>)
       /\ (linkDown = "cycle" /\ net_pc = "first" /\ net_pc' # "first")
            => attempts' = <<IF last_connection_is_ethernet THEN Ethernet ELSE WifiDhcp>>
      ]_vars

C20_Witness == linkDown = "tried" /\ ~last_connection_is_ethernet /\ attempts = <<WifiDhcp>>

\* networking_task waits in log_to_sd for a mutex whose holder waits for the
\* same mutex: the wait does not end.
NetStuckInLog ==
    /\ log_pc[NetTask] = "take"
    /\ sdMutex # 0
    /\ mutexHolder[sdMutex] \notin {"none", NetTask}
    /\ log_pc[mutexHolder[sdMutex]] = "take"

\* C21: while no transport connects, networking_task does not stop: it is
\* never held for ever in the middle of the ladder.
C21_NoAttemptTerminal == ~ethernet_connected /\ ~wifi_connected => ~NetStuckInLog

\* C22: whenever a transport is connected, the transport that
\* last_connection_is_ethernet names is one whose connected flag is set.
C22_ConnectedHasIdentity == (ethernet_connected \/ wifi_connected) => (IF last_connection_is_ethernet THEN ethernet_connected ELSE wifi_connected)

\* Pushes of servo_task that found the queue full: the message was dropped.
DroppedEvents == pushCount - (Len(sent[0]) + Len(sent[1]) + Len(sent[2]))

\* Log entries that servo_task has written.
ServoLogEntries == {i \in 1..Len(logged) : logged[i].by = "servo_task"}

\* C23: when servo_task has dropped a StatusEvent on a full channel, a log
\* entry of servo_task records it.
C23_DropAndLog == (~panicked /\ DroppedEvents > 0) => Cardinality(ServoLogEntries) >= DroppedEvents

C25_NtpBoundedNonFatal ==
    [][/\ gotIp'.retries <= NTP_MAX_RETRIES
       /\ (ntp_pc = "sync" /\ ntp_pc' = "idle" /\ ~gotIp'.synced)
            => UNCHANGED <<last_connection_is_ethernet, ethernet_connected, wifi_connected>>
      ]_vars

\* The sync status never left pending in the ten retries: update_ntp gave up.
C25_Witness == ntp_pc = "idle" /\ gotIp.event = "sta" /\ gotIp.retries = NTP_MAX_RETRIES /\ ~gotIp.synced /\ wifi_connected

\* C26: when log_to_sd cannot open the log file it sends the trap
\* "SD Card Write Failed", and the call then gives back the mutex it took and
\* returns to its caller: no abort, and the task holds no mutex afterwards.
C26_WriteFailureIsSideChannel ==
    [][\A t \in AllLogTasks :
         /\ (log_pc[t] = "open" /\ log_pc'[t] = "trapped") => trapsSent' = trapsSent + 1
         /\ (log_pc[t] = "trapped" /\ vars' # vars)
              => \/ log_pc'[t] = "trapped" /\ ~panicked'
                 \/ /\ log_pc'[t] = "idle"
                    /\ ~panicked'
                    /\ \A m \in MutexIds : mutexHolder'[m] # t
      ]_vars

\* C27: an acquisition of sdMutex waits for a bounded time only: a task that
\* waits in xSemaphoreTake leaves the wait, with the mutex or without it.
C27_BoundedMutexWait == \A t \in {MonitorTask, FormatTask} : (log_pc[t] = "take" /\ ~panicked) ~> (log_pc[t] # "take" \/ panicked)

\* The cells on which the frame just rendered painted the marker of axis a:
\* none when the cell index did not change.
FrameMarker(a) == IF last_pos[a] # framePrevPos[a] THEN MarkerCells(last_pos[a]) ELSE {}

\* The colour the limit step gives cell i of axis a in the phase flash_state:
\* red in the first (last) 20 cells while the min (max) limit is active and
\* the flash is on, orange anywhere else.
LimitColour(a, i) == IF flash_state /\ ((min_limit[a] /\ i < LimitCells) \/ (max_limit[a] /\ i >= LedCount - LimitCells)) THEN Red ELSE Orange

\* C28: in every frame pushed to the strips, apart from the marker cells
\* painted in that frame, the first (last) 20 cells of an axis whose min (max)
\* limit is active show the alarm colour in the on phase and the base colour
\* in the off phase, every other cell shows the track colour, and an axis
\* with no limit active shows the track colour only.
C28_LimitAlarmRendering ==
    led_pc = "delay" =>
        \A a \in Axes : \A i \in Cells \ FrameMarker(a) : leds[a][i] = LimitColour(a, i)

\* C29: for every position on the rail and every configured strip length and
\* rail length, the product position * num_leds fits the 32-bit int, and
\* led_pos is the floor of position * num_leds / rail_length and lies in
\* 0..num_leds.
C29_MarkerCellIndex ==
    cellCall.done =>
        /\ ~cellCall.overflow
        /\ ~MulOverflows32(cellCall.position, cellCall.num_leds)
        /\ cellCall.led_pos = (cellCall.position * cellCall.num_leds) \div cellCall.rail_length
        /\ cellCall.led_pos \in 0..cellCall.num_leds

\* The cells on which a frame paints the marker of axis a when it takes
\* last_pos from before to after: none when the cell index did not change.
DrawnCells(before, after) == IF after # before THEN MarkerCells(after) ELSE {}

\* C30: a frame that finds last_pos of an axis at -1 restores no cell from
\* the backup buffer (every cell outside the marker it paints keeps the
\* colour the limit step gave it), and no frame sets last_pos to -1: the
\* value is there only as long as no position has been drawn.
C30_InitialMarkerNone ==
    [][\A a \in Axes :
         /\ (led_pc = "render" /\ led_pc' = "delay" /\ last_pos[a] = -1)
              => \A i \in Cells \ DrawnCells(last_pos[a], last_pos'[a]) :
                     leds'[a][i] = LimitColour(a, i)'
         /\ last_pos'[a] = -1 => last_pos[a] = -1
      ]_vars

\* C31: the positions and the last_move_time values of the three axes change
\* only in a step of servo_task that polls a position; every step of
\* led_task leaves them as they are.
C31_AxisStatusSingleWriter ==
    [][/\ (servo_position' # servo_position \/ last_move_time' # last_move_time)
            => (servo_pc[1] = "position" /\ servo_pc' # servo_pc /\ led_pc' = led_pc)
       /\ led_pc' # led_pc => UNCHANGED <<servo_position, last_move_time>>
      ]_vars

\* Axis Y has moved at a later tick, and led_task has rendered a frame since.
C31_Witness == servo_position[0] = 1 /\ last_move_time[0] > 0 /\ led_pc = "delay" /\ last_pos[0] = 50

\* C32: a poll of the position of axis a stores the sample and sets
\* last_move_time of the axis to the current tick when the sample differs
\* from the stored position, leaves both as they are when it does not, and
\* in either case touches no other axis and pushes nothing onto the queue.
C32_IdleTimerReset ==
    [][\A a \in Axes :
         (servo_pc = <<"position", a>> /\ servo_pc' # servo_pc) =>
            /\ \A r \in MovePosReads(a) :
                   LET sample == read_current_position(r)
                       upd == check_and_update_position(sample, servo_position[a],
                                                        last_move_time[a], now)
                   IN  IF sample # servo_position[a]
                       THEN upd.position = sample /\ upd.time = now
                       ELSE upd.position = servo_position[a] /\ upd.time = last_move_time[a]
            /\ servo_position'[a] # servo_position[a] => last_move_time'[a] = now
            /\ servo_position'[a] = servo_position[a]
                   => last_move_time'[a] = last_move_time[a]
            /\ \A b \in Axes \ {a} :
                   /\ servo_position'[b] = servo_position[b]
                   /\ last_move_time'[b] = last_move_time[b]
            /\ UNCHANGED <<ledCommandQueue, sent, pushCount>>
      ]_vars

\* Axis Y moved after the first tick, and a later poll found it where it was.
C32_Witness ==
    /\ lastPoll.kind = "position"
    /\ lastPoll.axis = 0
    /\ lastPoll.kept
    /\ servo_position[0] = 1
    /\ last_move_time[0] > 0

\* C33: ledCommandQueue never holds more than 10 messages, however servo_task
\* and led_task are interleaved.
C33_ChannelBounded == Len(ledCommandQueue) <= 10

\* led_task still runs its boot animation; servo_task has filled the queue
\* and has pushed once more.
C33_Witness == led_pc = "boot" /\ Len(ledCommandQueue) = 10 /\ pushCount = 11

\* C34: a frame that finds the marker of an axis already drawn on the cell
\* its position maps to shows the marker colour on the marker cells of that
\* axis.
C34_MarkerPersists ==
    led_pc = "delay" =>
        \A a \in Axes :
            (framePrevPos[a] # -1 /\ last_pos[a] = framePrevPos[a])
                => \A i \in MarkerCells(last_pos[a]) : leds[a][i] = Green

\* servo_task is not between the comparison of a sample and its push.
ServoBetweenPolls == servo_pc[1] # "send"

\* C35: whenever servo_task is between polls and the queue is empty, the
\* min and max flags that led_task keeps for an axis are the limit bits of
\* the latest sample servo_task took of that axis.
C35_LimitFlagsConverge ==
    (~panicked /\ queueCreated /\ ServoBetweenPolls /\ ledCommandQueue = <<>>) =>
        \A a \in Axes :
            prevSample[a] # -1 =>
                /\ min_limit[a] = (prevSample[a] % 2 = 1)
                /\ max_limit[a] = ((prevSample[a] \div 2) % 2 = 1)

\* C36: servo_task calls xQueueSend on ledCommandQueue only after led_task
\* has created the queue.
C36_CreationPrecedesUse == [][pushCount' > pushCount => queueCreated]_vars

\* The step is the got-IP handler of transport event ("eth" or "sta").
GotIpStep(event) == ntp_pc = "idle" /\ ntp_pc' = "sync" /\ gotIp'.event = event

\* C37: ethernet_connected and wifi_connected go from false to true only in
\* the got-IP handler of their own transport.
C37_ConnectedImpliesAddress ==
    [][/\ (~ethernet_connected /\ ethernet_connected') => GotIpStep("eth")
       /\ (~wifi_connected /\ wifi_connected') => GotIpStep("sta")
      ]_vars

\* The mutex objects that xSemaphoreCreateMutex has returned so far.
MutexesCreated == nextMutex - 1

\* C38: at most one mutex object is ever created and stored in sdMutex, and
\* no two tasks are between xSemaphoreTake and xSemaphoreGive of log_to_sd
\* at the same time.
C38_SingleLogMutex ==
    /\ MutexesCreated <= 1
    /\ \A t, u \in AllLogTasks : (InLogSection(t) /\ InLogSection(u)) => t = u

\* C39: flash_red_limits and update_position_display_and_preserve read and
\* write only cells 0 .. num_leds - 1 of the strip and of its backup buffer,
\* whatever the strip length and the position.
C39_StripWritesInBounds == stripCall.cells \subseteq 0..(stripCall.num_leds - 1)

\* C40: every call of knight_rider_effect in the boot animation writes a
\* cell within 0 .. num_leds - 1 of the strip it was called for.
C40_BootAnimationInBounds ==
    knightCall.calls > 0 =>
        knightCall.written \in 0..(knightCall.lens[knightCall.into] - 1)

====
